---- MODULE Spec2Model ----
(***************************************************************************)
(* Suffix tree of a text, built online with Ukkonen's algorithm, and the  *)
(* queries answered on it.  Two engines are modelled: the JavaScript      *)
(* class SuffixTree (suffixTree.js) and the C++ class SuffixTree          *)
(* (SuffixTree.h).  Characters are their character codes, positions in    *)
(* the text are 0-based as in the code, nodes are the entries of the node *)
(* store `nodes' and a pointer to a node is its index (Null = no node).   *)
(***************************************************************************)
EXTENDS Integers, Sequences, FiniteSets, TLC

VARIABLES text, nodes, activeNode, activeEdge, activeLength,
          remainingSuffixCount, leafEnd, lastCreatedNode, steps, cloneHeap,
          maxDepth, bestString, minLength,
          pc, i, op, arg, ret, firstCall, currentStepIndex, reads

vars == <<text, nodes, activeNode, activeEdge, activeLength,
          remainingSuffixCount, leafEnd, lastCreatedNode, steps, cloneHeap,
          maxDepth, bestString, minLength, pc, i, op, arg, ret, firstCall,
          currentStepIndex, reads>>

treeVars == <<nodes, activeNode, activeEdge, activeLength,
              remainingSuffixCount, leafEnd, lastCreatedNode>>

queryVars == <<op, arg, ret>>

cppVars == <<maxDepth, bestString, minLength>>

histVars == <<steps, cloneHeap, firstCall, currentStepIndex, reads>>

-----------------------------------------------------------------------------
(* Bounds of the model *)

MaxLen == 5
MaxBadLen == 3
MaxPat == 3
MaxSeqLen == 2
MaxSeqPat == 1
MaxInput == 3
MaxBuildLen == 7

-----------------------------------------------------------------------------
(* Characters and the alphabet *)

ALPHABET_SIZE == 27
CharA == 65
Dollar == 36
NulChar == 0
CharB == CharA + 1
CharC == CharA + 2
CharN == CharA + 13
CharZ == CharA + 25
LBracket == CharA + 26
LowerA == CharA + 32
AtSign == CharA - 1

Null == 0
Undefined == 0 - 1
EndNull == <<>>
RootId == 1

\* no text position has been read and no children index computed yet
NoReads == [phase |-> 0, pos |-> {}, idx |-> {}]

\* no query has been called yet
NoCall == [op |-> "none", arg |-> <<>>, ret |-> <<>>]

Letters == CharA..CharZ

Min2(a, b) == IF a < b THEN a ELSE b
Max2(a, b) == IF a > b THEN a ELSE b

SeqsUpTo(S, n) == UNION {[1..k -> S] : k \in 0..n}

ValidText(t) ==
    /\ Len(t) >= 1
    /\ t[Len(t)] = Dollar
    /\ \A k \in 1..(Len(t) - 1) : t[k] \in Letters

BANANA == <<CharB, CharA, CharN, CharA, CharN, CharA, Dollar>>
AAAA == <<CharA, CharA, CharA, CharA, Dollar>>
ADollarB == <<CharA, Dollar, CharB>>
ANA == <<CharA, CharN, CharA>>

ValidTexts == {Append(s, Dollar) : s \in SeqsUpTo({CharA, CharB}, MaxLen)}
InvalidTexts == {s \in SeqsUpTo({CharA, Dollar}, MaxBadLen) : ~ValidText(s)}
ScenarioTexts == {BANANA, AAAA, ADollarB}
ABBABBB == <<CharA, CharB, CharB, CharA, CharB, CharB, CharB, Dollar>>
CppScenarioTexts == {BANANA, ABBABBB, ADollarB}
CppTexts == ValidTexts \cup CppScenarioTexts
ABACBABACB == <<CharA, CharB, CharA, CharC, CharB, CharA, CharB, CharA, CharC,
                CharB, Dollar>>
ABACBABACBB == <<CharA, CharB, CharA, CharC, CharB, CharA, CharB, CharA, CharC,
                 CharB, CharB, Dollar>>
CppBuildTexts == {Append(s, Dollar) : s \in SeqsUpTo({CharA, CharB}, MaxBuildLen)}
                     \cup CppScenarioTexts \cup {ABACBABACB, ABACBABACBB}
Texts == ValidTexts \cup InvalidTexts \cup ScenarioTexts
BuildTexts == {Append(s, Dollar) : s \in SeqsUpTo({CharA, CharB}, MaxBuildLen)}
                  \cup InvalidTexts \cup ScenarioTexts

OutsidePatterns == {<<LowerA>>, <<CharA, LowerA>>, <<AtSign>>, <<CharB, AtSign>>,
                    <<LBracket>>, <<CharA, LBracket>>}
CppPatterns == SeqsUpTo({CharA, CharB, Dollar}, MaxPat) \cup {ANA}
                   \cup OutsidePatterns

Patterns == SeqsUpTo({CharA, CharB, Dollar, LBracket}, MaxPat)
              \cup {ANA, <<LowerA>>, <<CharA, LowerA>>, <<AtSign>>, <<CharB, AtSign>>}

-----------------------------------------------------------------------------
(* Node store (JS engine) *)

NoChildren == [c \in 0..(ALPHABET_SIZE - 1) |-> Null]

\* class Node, constructor(start, end)
Node(start, end) ==
    [start |-> start, end |-> end, children |-> NoChildren,
     suffixLink |-> Null, suffixIndex |-> 0 - 1]

\* Node.edgeLength(currentLeafEnd)
edgeLength(node, currentLeafEnd) ==
    (IF node.end # EndNull THEN node.end[1] ELSE currentLeafEnd) - node.start + 1

\* this.text[k]: undefined outside the string
TextAt(k) == IF k >= 0 /\ k < Len(text) THEN text[k + 1] ELSE Undefined

\* charToIndex(c)
charToIndex(c) == IF c = Dollar THEN 26 ELSE c - CharA

\* node.children[idx] read on an Array(27): undefined (falsy) outside 0..26
ChildAt(node, idx) ==
    IF idx \in DOMAIN node.children THEN node.children[idx] ELSE Null

SetChild(store, parent, idx, child) ==
    [store EXCEPT ![parent].children[idx] = child]

RECURSIVE AscendingSeq(_)
AscendingSeq(S) ==
    IF S = {} THEN <<>>
    ELSE LET m == CHOOSE x \in S : \A y \in S : x <= y
         IN  <<m>> \o AscendingSeq(S \ {m})

\* the indices visited by `for (let i = 0; i < 27; i++) if (node.children[i])',
\* in the order of the loop
ChildIndices(node) ==
    AscendingSeq({c \in 0..(ALPHABET_SIZE - 1) : node.children[c] # Null})

-----------------------------------------------------------------------------
(* Snapshots: cloneTreeWithSuffixLinks *)
(* The clones live in `cloneHeap'.  A pointer is an address: n > 0 is the  *)
(* live node nodes[n], a < 0 is the clone cloneHeap[-a], Null is no node.  *)

CloneAddr(k) == 0 - k

\* the object an address denotes
Deref(a) == IF a > 0 THEN nodes[a] ELSE cloneHeap[0 - a]

RECURSIVE CloneOrder(_, _), CloneOrderFrom(_, _, _)
\* the originals in the order in which _cloneNodeHelper creates their clones
CloneOrder(store, n) ==
    IF n = Null THEN <<>>
    ELSE <<n>> \o CloneOrderFrom(store, n, ChildIndices(store[n]))
CloneOrderFrom(store, n, cs) ==
    IF cs = <<>> THEN <<>>
    ELSE CloneOrder(store, store[n].children[Head(cs)])
             \o CloneOrderFrom(store, n, Tail(cs))

\* map.get(orig): the clone of orig, undefined (then `|| null') when absent;
\* the k-th clone created by this call is allocated at cloneHeap[base + k]
MapGet(order, base, orig) ==
    IF \E k \in 1..Len(order) : order[k] = orig
    THEN CloneAddr(base + (CHOOSE k \in 1..Len(order) : order[k] = orig))
    ELSE Null

\* _cloneNodeHelper copying the children array instead of cloning the children
cloneNodeHelperShallow(store, order, base) ==
    [k \in 1..Len(order) |->
        LET orig == store[order[k]] IN
        [Node(orig.start, orig.end) EXCEPT
            !.suffixIndex = orig.suffixIndex,
            !.children = orig.children]]

\* _cloneNodeHelper(root, map): the new objects, in allocation order
cloneNodeHelper(store, order, base) ==
    [k \in 1..Len(order) |->
        LET orig == store[order[k]] IN
        [Node(orig.start, orig.end) EXCEPT
            !.suffixIndex = orig.suffixIndex,
            !.children = [c \in 0..(ALPHABET_SIZE - 1) |->
                             IF orig.children[c] # Null
                             THEN MapGet(order, base, orig.children[c])
                             ELSE Null]]]

\* cloneTreeWithSuffixLinks(root): the new objects of the clone heap; the
\* cloned root is the first of them
cloneTreeWithSuffixLinks(store, root, base) ==
    LET order == CloneOrder(store, root)
        clones == cloneNodeHelper(store, order, base)
    IN  [k \in 1..Len(order) |->
            IF store[order[k]].suffixLink # Null
            THEN [clones[k] EXCEPT
                     !.suffixLink = MapGet(order, base, store[order[k]].suffixLink)]
            ELSE clones[k]]

-----------------------------------------------------------------------------
(* Construction, JS engine *)

\* the fields when the constructor starts on text t
NewSuffixTree(t) ==
    /\ text = t
    /\ nodes = <<>>
    /\ activeNode = Null
    /\ activeEdge = 0 - 1
    /\ activeLength = 0
    /\ remainingSuffixCount = 0
    /\ leafEnd = 0 - 1
    /\ lastCreatedNode = Null
    /\ steps = <<>>
    /\ cloneHeap = <<>>
    /\ firstCall = NoCall
    /\ currentStepIndex = 0
    /\ reads = NoReads
    /\ maxDepth = 0
    /\ bestString = <<>>
    /\ minLength = 0
    /\ pc = "new"
    /\ i = 0
    /\ op = "none"
    /\ arg = <<>>
    /\ ret = <<>>

Init == \E t \in Texts : NewSuffixTree(t)

\* constructor, up to the first test of the for loop of buildSuffixTreeStepByStep
buildSuffixTreeStepByStep ==
    /\ pc = "new"
    /\ nodes' = <<Node(0 - 1, <<0 - 1>>)>>
    /\ activeNode' = RootId
    /\ leafEnd' = 0 - 1
    /\ remainingSuffixCount' = 0
    /\ activeLength' = 0
    /\ lastCreatedNode' = Null
    /\ i' = 0
    /\ pc' = "for"
    /\ UNCHANGED <<text, activeEdge, histVars, cppVars, queryVars>>

\* extendSuffixTree(pos), up to the first test of its while loop
extendSuffixTree ==
    /\ pc = "for"
    /\ i < Len(text)
    /\ leafEnd' = i
    /\ remainingSuffixCount' = remainingSuffixCount + 1
    /\ lastCreatedNode' = Null
    /\ pc' = "while"
    /\ UNCHANGED <<text, nodes, activeNode, activeEdge, activeLength, histVars,
                   i, cppVars, queryVars>>

\* activeEdge after `if (activeLength === 0) activeEdge = pos'
CurActiveEdge == IF activeLength = 0 THEN i ELSE activeEdge
CurEdgeIndex == charToIndex(TextAt(CurActiveEdge))
CurNext == ChildAt(nodes[activeNode], CurEdgeIndex)

\* the active point update without `this.activeEdge = pos - remainingSuffixCount + 1'
AfterInsertionStaleEdge(ae) ==
    /\ remainingSuffixCount' = remainingSuffixCount - 1
    /\ IF activeNode = RootId /\ activeLength > 0
       THEN /\ activeLength' = activeLength - 1
            /\ activeEdge' = ae
            /\ activeNode' = activeNode
       ELSE /\ activeLength' = activeLength
            /\ activeEdge' = ae
            /\ activeNode' = IF activeNode # RootId
                             THEN (IF nodes'[activeNode].suffixLink # Null
                                   THEN nodes'[activeNode].suffixLink ELSE RootId)
                             ELSE activeNode
    /\ pc' = IF remainingSuffixCount' > 0 THEN "while" ELSE "record"

\* end of a loop iteration that inserted a leaf: remainingSuffixCount--, the
\* active point update and the next test of the while condition
AfterInsertion(ae) ==
    /\ remainingSuffixCount' = remainingSuffixCount - 1
    /\ IF activeNode = RootId /\ activeLength > 0
       THEN /\ activeLength' = activeLength - 1
            /\ activeEdge' = i - remainingSuffixCount' + 1
            /\ activeNode' = activeNode
       ELSE /\ activeLength' = activeLength
            /\ activeEdge' = ae
            /\ activeNode' = IF activeNode # RootId
                             THEN (IF nodes'[activeNode].suffixLink # Null
                                   THEN nodes'[activeNode].suffixLink ELSE RootId)
                             ELSE activeNode
    /\ pc' = IF remainingSuffixCount' > 0 THEN "while" ELSE "record"

\* the new leaf without `this.lastCreatedNode.suffixLink = this.activeNode'
NewLeafKeepsPending ==
    /\ pc = "while"
    /\ CurNext = Null
    /\ LET leaf == Len(nodes) + 1
           added == Append(nodes, Node(i, EndNull))
           hung == SetChild(added, activeNode, CurEdgeIndex, leaf)
       IN  /\ nodes' = hung
           /\ lastCreatedNode' = Null
    /\ AfterInsertion(CurActiveEdge)
    /\ UNCHANGED <<text, leafEnd, histVars, i, cppVars, queryVars>>

\* loop iteration, no edge for the active symbol: a new leaf under activeNode
NewLeaf ==
    /\ pc = "while"
    /\ CurNext = Null
    /\ LET leaf == Len(nodes) + 1
           added == Append(nodes, Node(i, EndNull))
           hung == SetChild(added, activeNode, CurEdgeIndex, leaf)
       IN  IF lastCreatedNode # Null
           THEN /\ nodes' = [hung EXCEPT ![lastCreatedNode].suffixLink = activeNode]
                /\ lastCreatedNode' = Null
           ELSE /\ nodes' = hung
                /\ lastCreatedNode' = lastCreatedNode
    /\ AfterInsertion(CurActiveEdge)
    /\ UNCHANGED <<text, leafEnd, histVars, i, cppVars, queryVars>>

\* loop iteration, walkDown(nextNode) returned true: `continue'
walkDown ==
    /\ pc = "while"
    /\ CurNext # Null
    /\ LET edgeLen == edgeLength(nodes[CurNext], leafEnd) IN
       /\ activeLength >= edgeLen
       /\ activeEdge' = CurActiveEdge + edgeLen
       /\ activeLength' = activeLength - edgeLen
       /\ activeNode' = CurNext
    /\ UNCHANGED <<text, nodes, remainingSuffixCount, leafEnd, lastCreatedNode,
                   histVars, pc, i, cppVars, queryVars>>

\* rule 3 without `this.activeLength++'
Rule3KeepsLength ==
    /\ pc = "while"
    /\ CurNext # Null
    /\ activeLength < edgeLength(nodes[CurNext], leafEnd)
    /\ TextAt(nodes[CurNext].start + activeLength) = TextAt(i)
    /\ IF lastCreatedNode # Null /\ activeNode # RootId
       THEN /\ nodes' = [nodes EXCEPT ![lastCreatedNode].suffixLink = activeNode]
            /\ lastCreatedNode' = Null
       ELSE UNCHANGED <<nodes, lastCreatedNode>>
    /\ activeLength' = activeLength
    /\ activeEdge' = CurActiveEdge
    /\ pc' = "record"
    /\ UNCHANGED <<text, activeNode, remainingSuffixCount, leafEnd, histVars, i,
                   cppVars, queryVars>>

\* rule 3 counting the suffix as inserted (remainingSuffixCount--)
Rule3Decrements ==
    /\ pc = "while"
    /\ CurNext # Null
    /\ activeLength < edgeLength(nodes[CurNext], leafEnd)
    /\ TextAt(nodes[CurNext].start + activeLength) = TextAt(i)
    /\ IF lastCreatedNode # Null /\ activeNode # RootId
       THEN /\ nodes' = [nodes EXCEPT ![lastCreatedNode].suffixLink = activeNode]
            /\ lastCreatedNode' = Null
       ELSE UNCHANGED <<nodes, lastCreatedNode>>
    /\ activeLength' = activeLength + 1
    /\ activeEdge' = CurActiveEdge
    /\ remainingSuffixCount' = remainingSuffixCount - 1
    /\ pc' = "record"
    /\ UNCHANGED <<text, activeNode, leafEnd, histVars, i, cppVars, queryVars>>

\* loop iteration, the next symbol on the edge is text[pos]: rule 3, `break'
Rule3 ==
    /\ pc = "while"
    /\ CurNext # Null
    /\ activeLength < edgeLength(nodes[CurNext], leafEnd)
    /\ TextAt(nodes[CurNext].start + activeLength) = TextAt(i)
    /\ IF lastCreatedNode # Null /\ activeNode # RootId
       THEN /\ nodes' = [nodes EXCEPT ![lastCreatedNode].suffixLink = activeNode]
            /\ lastCreatedNode' = Null
       ELSE UNCHANGED <<nodes, lastCreatedNode>>
    /\ activeLength' = activeLength + 1
    /\ activeEdge' = CurActiveEdge
    /\ pc' = "record"
    /\ UNCHANGED <<text, activeNode, remainingSuffixCount, leafEnd, histVars, i,
                   cppVars, queryVars>>

\* the edge split without `splitNode.children[nextIndex] = nextNode'
SplitEdgeDropsOld ==
    /\ pc = "while"
    /\ CurNext # Null
    /\ activeLength < edgeLength(nodes[CurNext], leafEnd)
    /\ TextAt(nodes[CurNext].start + activeLength) # TextAt(i)
    /\ LET nextNode == CurNext
           splitEnd == nodes[nextNode].start + activeLength - 1
           splitNode == Len(nodes) + 1
           leaf == Len(nodes) + 2
           leafIndex == charToIndex(TextAt(i))
           newStart == nodes[nextNode].start + activeLength
           nextIndex == charToIndex(TextAt(newStart))
           s1 == Append(Append(nodes, Node(nodes[nextNode].start, <<splitEnd>>)),
                        Node(i, EndNull))
           s2 == SetChild(s1, activeNode, CurEdgeIndex, splitNode)
           s3 == SetChild(s2, splitNode, leafIndex, leaf)
           s4 == [s3 EXCEPT ![nextNode].start = newStart]
           s5 == s4
       IN  /\ nodes' = IF lastCreatedNode # Null
                       THEN [s5 EXCEPT ![lastCreatedNode].suffixLink = splitNode]
                       ELSE s5
           /\ lastCreatedNode' = splitNode
    /\ AfterInsertion(CurActiveEdge)
    /\ UNCHANGED <<text, leafEnd, histVars, i, cppVars, queryVars>>

\* the edge split with nextIndex taken before `nextNode.start += activeLength'
SplitEdgeStaleIndex ==
    /\ pc = "while"
    /\ CurNext # Null
    /\ activeLength < edgeLength(nodes[CurNext], leafEnd)
    /\ TextAt(nodes[CurNext].start + activeLength) # TextAt(i)
    /\ LET nextNode == CurNext
           splitEnd == nodes[nextNode].start + activeLength - 1
           splitNode == Len(nodes) + 1
           leaf == Len(nodes) + 2
           leafIndex == charToIndex(TextAt(i))
           newStart == nodes[nextNode].start + activeLength
           nextIndex == charToIndex(TextAt(nodes[nextNode].start))
           s1 == Append(Append(nodes, Node(nodes[nextNode].start, <<splitEnd>>)),
                        Node(i, EndNull))
           s2 == SetChild(s1, activeNode, CurEdgeIndex, splitNode)
           s3 == SetChild(s2, splitNode, leafIndex, leaf)
           s4 == [s3 EXCEPT ![nextNode].start = newStart]
           s5 == SetChild(s4, splitNode, nextIndex, nextNode)
       IN  /\ nodes' = IF lastCreatedNode # Null
                       THEN [s5 EXCEPT ![lastCreatedNode].suffixLink = splitNode]
                       ELSE s5
           /\ lastCreatedNode' = splitNode
    /\ AfterInsertion(CurActiveEdge)
    /\ UNCHANGED <<text, leafEnd, histVars, i, cppVars, queryVars>>

\* the edge split linking the pending node to activeNode, not to splitNode
SplitEdgeLinksActiveNode ==
    /\ pc = "while"
    /\ CurNext # Null
    /\ activeLength < edgeLength(nodes[CurNext], leafEnd)
    /\ TextAt(nodes[CurNext].start + activeLength) # TextAt(i)
    /\ LET nextNode == CurNext
           splitEnd == nodes[nextNode].start + activeLength - 1
           splitNode == Len(nodes) + 1
           leaf == Len(nodes) + 2
           leafIndex == charToIndex(TextAt(i))
           newStart == nodes[nextNode].start + activeLength
           nextIndex == charToIndex(TextAt(newStart))
           s1 == Append(Append(nodes, Node(nodes[nextNode].start, <<splitEnd>>)),
                        Node(i, EndNull))
           s2 == SetChild(s1, activeNode, CurEdgeIndex, splitNode)
           s3 == SetChild(s2, splitNode, leafIndex, leaf)
           s4 == [s3 EXCEPT ![nextNode].start = newStart]
           s5 == SetChild(s4, splitNode, nextIndex, nextNode)
       IN  /\ nodes' = IF lastCreatedNode # Null
                       THEN [s5 EXCEPT ![lastCreatedNode].suffixLink = activeNode]
                       ELSE s5
           /\ lastCreatedNode' = splitNode
    /\ AfterInsertion(CurActiveEdge)
    /\ UNCHANGED <<text, leafEnd, histVars, i, cppVars, queryVars>>

\* the edge split made without the test of rule 3, also when the next symbol
\* on the edge is text[pos]
SplitEdgeWithoutRule3 ==
    /\ pc = "while"
    /\ CurNext # Null
    /\ activeLength < edgeLength(nodes[CurNext], leafEnd)
    /\ LET nextNode == CurNext
           splitEnd == nodes[nextNode].start + activeLength - 1
           splitNode == Len(nodes) + 1
           leaf == Len(nodes) + 2
           leafIndex == charToIndex(TextAt(i))
           newStart == nodes[nextNode].start + activeLength
           nextIndex == charToIndex(TextAt(newStart))
           s1 == Append(Append(nodes, Node(nodes[nextNode].start, <<splitEnd>>)),
                        Node(i, EndNull))
           s2 == SetChild(s1, activeNode, CurEdgeIndex, splitNode)
           s3 == SetChild(s2, splitNode, leafIndex, leaf)
           s4 == [s3 EXCEPT ![nextNode].start = newStart]
           s5 == SetChild(s4, splitNode, nextIndex, nextNode)
       IN  /\ nodes' = IF lastCreatedNode # Null
                       THEN [s5 EXCEPT ![lastCreatedNode].suffixLink = splitNode]
                       ELSE s5
           /\ lastCreatedNode' = splitNode
    /\ AfterInsertion(CurActiveEdge)
    /\ UNCHANGED <<text, leafEnd, histVars, i, cppVars, queryVars>>

\* loop iteration, mismatch inside the edge: split it and hang a new leaf
SplitEdge ==
    /\ pc = "while"
    /\ CurNext # Null
    /\ activeLength < edgeLength(nodes[CurNext], leafEnd)
    /\ TextAt(nodes[CurNext].start + activeLength) # TextAt(i)
    /\ LET nextNode == CurNext
           splitEnd == nodes[nextNode].start + activeLength - 1
           splitNode == Len(nodes) + 1
           leaf == Len(nodes) + 2
           leafIndex == charToIndex(TextAt(i))
           newStart == nodes[nextNode].start + activeLength
           nextIndex == charToIndex(TextAt(newStart))
           s1 == Append(Append(nodes, Node(nodes[nextNode].start, <<splitEnd>>)),
                        Node(i, EndNull))
           s2 == SetChild(s1, activeNode, CurEdgeIndex, splitNode)
           s3 == SetChild(s2, splitNode, leafIndex, leaf)
           s4 == [s3 EXCEPT ![nextNode].start = newStart]
           s5 == SetChild(s4, splitNode, nextIndex, nextNode)
       IN  /\ nodes' = IF lastCreatedNode # Null
                       THEN [s5 EXCEPT ![lastCreatedNode].suffixLink = splitNode]
                       ELSE s5
           /\ lastCreatedNode' = splitNode
    /\ AfterInsertion(CurActiveEdge)
    /\ UNCHANGED <<text, leafEnd, histVars, i, cppVars, queryVars>>

\* recordStep with the phases numbered from 1
recordStepOneBased ==
    /\ pc = "record"
    /\ steps' = Append(steps,
                       [pos |-> i + 1,
                        message |-> <<TextAt(i), i>>,
                        snapshotRoot |-> CloneAddr(Len(cloneHeap) + 1),
                        activeNodeStart |-> nodes[activeNode].start,
                        activeEdge |-> activeEdge,
                        activeLength |-> activeLength,
                        remainder |-> remainingSuffixCount,
                        leafEndSnapshot |-> leafEnd])
    /\ i' = i + 1
    /\ pc' = "for"
    /\ cloneHeap' = cloneHeap \o cloneTreeWithSuffixLinks(nodes, RootId, Len(cloneHeap))
    /\ UNCHANGED <<text, treeVars, cppVars, queryVars, firstCall, currentStepIndex,
                   reads>>

\* recordStep(i, message, leafEnd), then i++
recordStep ==
    /\ pc = "record"
    /\ steps' = Append(steps,
                       [pos |-> i,
                        message |-> <<TextAt(i), i>>,
                        snapshotRoot |-> CloneAddr(Len(cloneHeap) + 1),
                        activeNodeStart |-> nodes[activeNode].start,
                        activeEdge |-> activeEdge,
                        activeLength |-> activeLength,
                        remainder |-> remainingSuffixCount,
                        leafEndSnapshot |-> leafEnd])
    /\ i' = i + 1
    /\ pc' = "for"
    /\ cloneHeap' = cloneHeap \o cloneTreeWithSuffixLinks(nodes, RootId, Len(cloneHeap))
    /\ UNCHANGED <<text, treeVars, cppVars, queryVars, firstCall, currentStepIndex,
                   reads>>

-----------------------------------------------------------------------------
(* Suffix indices, JS engine *)

IsLeafNode(store, n) == \A c \in 0..(ALPHABET_SIZE - 1) : store[n].children[c] = Null

RECURSIVE setSuffixIndexByDFS(_, _, _), setSuffixIndexChildren(_, _, _, _)
\* setSuffixIndexByDFS(node, labelHeight): the node store after the traversal
setSuffixIndexByDFS(store, n, labelHeight) ==
    IF n = Null THEN store
    ELSE LET after == setSuffixIndexChildren(store, n, labelHeight,
                                             ChildIndices(store[n])) IN
         IF IsLeafNode(store, n)
         THEN [after EXCEPT ![n].suffixIndex = Len(text) - labelHeight]
         ELSE after
setSuffixIndexChildren(store, n, labelHeight, cs) ==
    IF cs = <<>> THEN store
    ELSE LET child == store[n].children[Head(cs)] IN
         setSuffixIndexChildren(
             setSuffixIndexByDFS(store, child,
                                 labelHeight + edgeLength(store[child], leafEnd)),
             n, labelHeight, Tail(cs))

\* variant of SetSuffixIndex: the traversal starts with labelHeight 1
SetSuffixIndexFromOne ==
    /\ pc = "for"
    /\ i >= Len(text)
    /\ nodes' = setSuffixIndexByDFS(nodes, RootId, 1)
    /\ pc' = "done"
    /\ UNCHANGED <<text, activeNode, activeEdge, activeLength, remainingSuffixCount,
                   leafEnd, lastCreatedNode, histVars, i, cppVars, queryVars>>

\* constructor, after the for loop: setSuffixIndexByDFS(root, 0)
SetSuffixIndex ==
    /\ pc = "for"
    /\ i >= Len(text)
    /\ nodes' = setSuffixIndexByDFS(nodes, RootId, 0)
    /\ pc' = "done"
    /\ UNCHANGED <<text, activeNode, activeEdge, activeLength, remainingSuffixCount,
                   leafEnd, lastCreatedNode, histVars, i, cppVars, queryVars>>

-----------------------------------------------------------------------------
(* Queries, JS engine *)

NoMatch == 0 - 1

RECURSIVE ScanEdge(_, _, _, _, _)
\* variant of ScanEdge: the characters along the edge are skipped unread
ScanEdgeNoCompare(child, edgeLen, k, pattern, pos) ==
    Min2(pos + (edgeLen - k), Len(pattern))

\* variant of ScanEdge: characters are compared by their alphabet index
ScanEdgeByIndex(child, edgeLen, k, pattern, pos) ==
    IF k < edgeLen /\ pos < Len(pattern)
    THEN IF charToIndex(TextAt(child.start + k)) # charToIndex(pattern[pos + 1])
         THEN NoMatch
         ELSE ScanEdge(child, edgeLen, k + 1, pattern, pos + 1)
    ELSE pos

\* inner while loop of search and _findNode: the new pos, NoMatch on a mismatch
ScanEdge(child, edgeLen, k, pattern, pos) ==
    IF k < edgeLen /\ pos < Len(pattern)
    THEN IF TextAt(child.start + k) # pattern[pos + 1]
         THEN NoMatch
         ELSE ScanEdge(child, edgeLen, k + 1, pattern, pos + 1)
    ELSE pos

RECURSIVE searchFrom(_, _, _)
searchFrom(current, pos, pattern) ==
    IF pos < Len(pattern)
    THEN LET idx == charToIndex(pattern[pos + 1])
             child == ChildAt(nodes[current], idx)
         IN  IF child = Null THEN FALSE
             ELSE LET np == ScanEdge(nodes[child], edgeLength(nodes[child], leafEnd),
                                     0, pattern, pos)
                  IN  IF np = NoMatch THEN FALSE ELSE searchFrom(child, np, pattern)
    ELSE TRUE

\* search(pattern)
search(pattern) == searchFrom(RootId, 0, pattern)

RECURSIVE findNodeFrom(_, _, _)
findNodeFrom(current, pos, pattern) ==
    IF pos < Len(pattern)
    THEN LET idx == charToIndex(pattern[pos + 1])
             child == ChildAt(nodes[current], idx)
         IN  IF child = Null THEN Null
             ELSE LET np == ScanEdge(nodes[child], edgeLength(nodes[child], leafEnd),
                                     0, pattern, pos)
                  IN  IF np = NoMatch THEN Null ELSE findNodeFrom(child, np, pattern)
    ELSE current

\* _findNode returning null for the empty pattern
findNodeRejectsEmpty(pattern) ==
    IF pattern = <<>> THEN Null ELSE findNodeFrom(RootId, 0, pattern)

\* _findNode(pattern)
findNode(pattern) == findNodeFrom(RootId, 0, pattern)

RECURSIVE collectLeafIndices(_), collectLeafIndicesChildren(_, _)
\* _collectLeafIndices(node, arr): what it pushes onto arr, in order
collectLeafIndices(n) ==
    collectLeafIndicesChildren(n, ChildIndices(nodes[n]))
        \o (IF IsLeafNode(nodes, n) /\ nodes[n].suffixIndex # 0 - 1
            THEN <<nodes[n].suffixIndex>> ELSE <<>>)
collectLeafIndicesChildren(n, cs) ==
    IF cs = <<>> THEN <<>>
    ELSE collectLeafIndices(nodes[n].children[Head(cs)])
             \o collectLeafIndicesChildren(n, Tail(cs))

RECURSIVE InsertNum(_, _)
InsertNum(sorted, x) ==
    IF sorted = <<>> THEN <<x>>
    ELSE IF x - Head(sorted) < 0 THEN <<x>> \o sorted
         ELSE <<Head(sorted)>> \o InsertNum(Tail(sorted), x)

\* variant of SortNum: the collected indices are returned unsorted
SortNumOmitted(s) == s

RECURSIVE SortNum(_)
\* result.sort((a, b) => a - b)
SortNum(s) == IF s = <<>> THEN <<>> ELSE InsertNum(SortNum(Tail(s)), Head(s))

\* findAllMatches(pattern)
findAllMatches(pattern) ==
    LET node == findNode(pattern) IN
    IF node = Null THEN <<>> ELSE SortNum(collectLeafIndices(node))

\* String.prototype.substring(a, b)
substring(s, a, b) ==
    LET ca == Min2(Max2(a, 0), Len(s))
        cb == Min2(Max2(b, 0), Len(s))
    IN  SubSeq(s, Min2(ca, cb) + 1, Max2(ca, cb))

\* variant of ChildCount: the loop stops before the index of '$'
ChildCountLetters(n) ==
    Cardinality({c \in 0..(ALPHABET_SIZE - 2) : nodes[n].children[c] # Null})

\* number of non-null entries of node.children
ChildCount(n) == Cardinality({c \in 0..(ALPHABET_SIZE - 1) : nodes[n].children[c] # Null})

RECURSIVE lrsDfs(_, _, _), lrsDfsChildren(_, _, _, _)
\* variant of lrsDfs: a candidate of equal length replaces the current one
lrsDfsLastWins(n, path, lrs) ==
    IF n = Null THEN lrs
    ELSE lrsDfsChildren(n, path,
                        IF ChildCount(n) >= 2 /\ Len(path) >= Len(lrs) THEN path ELSE lrs,
                        ChildIndices(nodes[n]))

\* dfs(node, path) of longestRepeatedSubstring; lrs is the closure variable
lrsDfs(n, path, lrs) ==
    IF n = Null THEN lrs
    ELSE lrsDfsChildren(n, path,
                        IF ChildCount(n) >= 2 /\ Len(path) > Len(lrs) THEN path ELSE lrs,
                        ChildIndices(nodes[n]))
lrsDfsChildren(n, path, lrs, cs) ==
    IF cs = <<>> THEN lrs
    ELSE LET child == nodes[n].children[Head(cs)]
             edgeLen == edgeLength(nodes[child], leafEnd)
             edgeStr == substring(text, nodes[child].start,
                                  nodes[child].start + edgeLen)
         IN  lrsDfsChildren(n, path, lrsDfs(child, path \o edgeStr, lrs), Tail(cs))

\* longestRepeatedSubstring()
longestRepeatedSubstring == lrsDfs(RootId, <<>>, <<>>)

\* a < b in the order of the default Array.prototype.sort on strings
LexLess(a, b) ==
    \E k \in 1..Len(b) :
        /\ k - 1 <= Len(a)
        /\ \A j \in 1..(k - 1) : a[j] = b[j]
        /\ \/ k = Len(a) + 1
           \/ k <= Len(a) /\ a[k] < b[k]

RECURSIVE InsertLex(_, _)
InsertLex(sorted, x) ==
    IF sorted = <<>> THEN <<x>>
    ELSE IF LexLess(x, Head(sorted)) THEN <<x>> \o sorted
         ELSE <<Head(sorted)>> \o InsertLex(Tail(sorted), x)

\* variant of SortLex: the candidates are left in text order
SortLexOmitted(s) == s

RECURSIVE SortLex(_)
\* candidates.sort()
SortLex(s) == IF s = <<>> THEN <<>> ELSE InsertLex(SortLex(Tail(s)), Head(s))

\* candidate.includes('$')
includes(s, c) == \E k \in 1..Len(s) : s[k] = c

RECURSIVE susCandidates(_, _)
\* inner for loop of shortestUniqueSubstring, from start position k on
susCandidates(len, k) ==
    IF k > Len(text) - len THEN <<>>
    ELSE LET candidate == substring(text, k, k + len) IN
         (IF ~includes(candidate, Dollar) /\ Len(findAllMatches(candidate)) = 1
          THEN <<candidate>> ELSE <<>>)
         \o susCandidates(len, k + 1)

RECURSIVE susFrom(_)
\* outer for loop of shortestUniqueSubstring, from length len on
susFrom(len) ==
    IF len > Len(text) THEN <<>>
    ELSE LET candidates == susCandidates(len, 0) IN
         IF Len(candidates) > 0 THEN SortLex(candidates)[1] ELSE susFrom(len + 1)

\* shortestUniqueSubstring()
shortestUniqueSubstring == susFrom(1)

\* a call search(p) on the finished tree
SearchCall(p) ==
    /\ pc = "done"
    /\ op = "none"
    /\ op' = "search"
    /\ arg' = p
    /\ ret' = search(p)
    /\ UNCHANGED <<text, treeVars, histVars, cppVars, pc, i>>

Search == \E p \in Patterns : SearchCall(p)

\* a call findAllMatches(p) on the finished tree
FindAllMatchesCall(p) ==
    /\ pc = "done"
    /\ op = "none"
    /\ op' = "findAllMatches"
    /\ arg' = p
    /\ ret' = findAllMatches(p)
    /\ UNCHANGED <<text, treeVars, histVars, cppVars, pc, i>>

FindAllMatches == \E p \in Patterns : FindAllMatchesCall(p)

LongestRepeatedSubstring ==
    /\ pc = "done"
    /\ op = "none"
    /\ op' = "longestRepeatedSubstring"
    /\ arg' = <<>>
    /\ ret' = longestRepeatedSubstring
    /\ UNCHANGED <<text, treeVars, histVars, cppVars, pc, i>>

ShortestUniqueSubstring ==
    /\ pc = "done"
    /\ op = "none"
    /\ op' = "shortestUniqueSubstring"
    /\ arg' = <<>>
    /\ ret' = shortestUniqueSubstring
    /\ UNCHANGED <<text, treeVars, histVars, cppVars, pc, i>>

\* the caller has consumed the value returned by the query
Return ==
    /\ pc = "done"
    /\ op # "none"
    /\ op' = "none"
    /\ arg' = <<>>
    /\ ret' = <<>>
    /\ UNCHANGED <<text, treeVars, histVars, cppVars, pc, i>>

Next ==
    \/ buildSuffixTreeStepByStep
    \/ extendSuffixTree
    \/ NewLeaf
    \/ walkDown
    \/ Rule3
    \/ SplitEdge
    \/ recordStep
    \/ SetSuffixIndex
    \/ Search
    \/ FindAllMatches
    \/ LongestRepeatedSubstring
    \/ ShortestUniqueSubstring
    \/ Return

Spec == Init /\ [][Next]_vars

\* the constructor alone: the phases, the snapshots and the suffix-index pass
NextBuild ==
    \/ buildSuffixTreeStepByStep
    \/ extendSuffixTree
    \/ NewLeaf
    \/ walkDown
    \/ Rule3
    \/ SplitEdge
    \/ recordStep
    \/ SetSuffixIndex

InitBuild == \E t \in BuildTexts : NewSuffixTree(t)

SpecBuild == InitBuild /\ [][NextBuild]_vars

-----------------------------------------------------------------------------
(* The earlier revision of shortestUniqueSubstring (unnamed/part_001): one  *)
(* DFS with the partial-edge logic.  Its construction code is that of the  *)
(* engine above; only the query differs.                                    *)

\* Number.MAX_SAFE_INTEGER (2^53 - 1), only ever compared with the length of a
\* string; represented by the largest 32-bit integer
MAX_SAFE_INTEGER == 2147483647

RECURSIVE susPrefixes(_, _, _)
\* the partial-edge for loop from prefixLen on; best = [sus, minLen] are the
\* closure variables
susPrefixes(pathSoFar, prefixLen, best) ==
    IF prefixLen >= Len(pathSoFar) THEN best
    ELSE LET candidate == substring(pathSoFar, 0, prefixLen) IN
         IF includes(candidate, Dollar) THEN best
         ELSE susPrefixes(pathSoFar, prefixLen + 1,
                          IF Len(candidate) < best.minLen
                          THEN [sus |-> candidate, minLen |-> Len(candidate)]
                          ELSE best)

RECURSIVE susDfs(_, _, _), susDfsChildren(_, _, _, _)
\* dfs(node, pathSoFar): the number of leaves it returns and the closure
\* variables sus and minLen after the call
susDfs(n, pathSoFar, best) ==
    IF n = Null THEN [leaves |-> 0, best |-> best]
    ELSE LET below == susDfsChildren(n, pathSoFar, [leaves |-> 0, best |-> best],
                                     ChildIndices(nodes[n]))
             totalLeaves == IF ChildCount(n) = 0 THEN 1 ELSE below.leaves
             whole == IF /\ ~includes(pathSoFar, Dollar)
                         /\ Len(pathSoFar) > 0
                         /\ Len(pathSoFar) < below.best.minLen
                      THEN [sus |-> pathSoFar, minLen |-> Len(pathSoFar)]
                      ELSE below.best
         IN  [leaves |-> totalLeaves,
              best |-> IF totalLeaves = 1
                       THEN susPrefixes(pathSoFar, 1, whole)
                       ELSE below.best]
susDfsChildren(n, pathSoFar, acc, cs) ==
    IF cs = <<>> THEN acc
    ELSE LET child == nodes[n].children[Head(cs)]
             edgeLen == edgeLength(nodes[child], leafEnd)
             edgeStr == substring(text, nodes[child].start,
                                  nodes[child].start + edgeLen)
             r == susDfs(child, pathSoFar \o edgeStr, acc.best)
         IN  susDfsChildren(n, pathSoFar,
                            [leaves |-> acc.leaves + r.leaves, best |-> r.best],
                            Tail(cs))

\* shortestUniqueSubstring() of the earlier revision
shortestUniqueSubstringDfs ==
    susDfs(RootId, <<>>, [sus |-> <<>>, minLen |-> MAX_SAFE_INTEGER]).best.sus

ShortestUniqueSubstringDfs ==
    /\ pc = "done"
    /\ op = "none"
    /\ op' = "shortestUniqueSubstringDfs"
    /\ arg' = <<>>
    /\ ret' = shortestUniqueSubstringDfs
    /\ UNCHANGED <<text, treeVars, histVars, cppVars, pc, i>>

NextRevision ==
    \/ buildSuffixTreeStepByStep
    \/ extendSuffixTree
    \/ NewLeaf
    \/ walkDown
    \/ Rule3
    \/ SplitEdge
    \/ recordStep
    \/ SetSuffixIndex
    \/ ShortestUniqueSubstringDfs
    \/ Return

SpecRevision == Init /\ [][NextRevision]_vars

-----------------------------------------------------------------------------
(* The C++ engine (SuffixTree.h) *)

INT_MAX == 2147483647

\* the address of the field leafEnd, held by every leaf
LeafEndPtr == <<>>

\* getIndex(c)
getIndex(c) == IF c = Dollar THEN 26 ELSE c - CharA

\* struct Node, Node(int start, int* end)
CppNode(start, end) ==
    [start |-> start, end |-> end, children |-> NoChildren,
     suffixLink |-> Null, suffixIndex |-> 0]

\* Node::edgeLength(): *end - start + 1
CppEdgeLength(node) ==
    (IF node.end = LeafEndPtr THEN leafEnd ELSE node.end[1]) - node.start + 1

\* text[k] of a std::string: the terminating '\0' at k = size()
CppTextAt(k) == IF k >= 0 /\ k < Len(text) THEN text[k + 1] ELSE NulChar

\* the fields when the constructor starts on text t
NewCppSuffixTree(t) ==
    /\ text = t
    /\ nodes = <<>>
    /\ activeNode = Null
    /\ activeLength = 0
    /\ activeEdge = NulChar
    /\ remainingSuffixCount = 0
    /\ leafEnd = 0 - 1
    /\ lastCreatedNode = Null
    /\ maxDepth = 0
    /\ bestString = <<>>
    /\ minLength = INT_MAX
    /\ steps = <<>>
    /\ cloneHeap = <<>>
    /\ firstCall = NoCall
    /\ currentStepIndex = 0
    /\ reads = NoReads
    /\ pc = "new"
    /\ i = 0
    /\ op = "none"
    /\ arg = <<>>
    /\ ret = <<>>

InitCpp == \E t \in CppTexts : NewCppSuffixTree(t)

\* constructor and buildSuffixTree(), up to the first test of its for loop
CppBuildSuffixTree ==
    /\ pc = "new"
    /\ nodes' = <<CppNode(0 - 1, <<0 - 1>>)>>
    /\ activeNode' = RootId
    /\ activeEdge' = NulChar
    /\ activeLength' = 0
    /\ remainingSuffixCount' = 0
    /\ lastCreatedNode' = Null
    /\ leafEnd' = 0 - 1
    /\ i' = 0
    /\ pc' = "for"
    /\ UNCHANGED <<text, histVars, cppVars, queryVars>>

\* extendSuffixTree(i), up to the first test of its while loop
CppExtendSuffixTree ==
    /\ pc = "for"
    /\ i < Len(text)
    /\ leafEnd' = leafEnd + 1
    /\ remainingSuffixCount' = remainingSuffixCount + 1
    /\ lastCreatedNode' = Null
    /\ pc' = "while"
    /\ UNCHANGED <<text, nodes, activeNode, activeEdge, activeLength, histVars,
                   i, cppVars, queryVars>>

\* activeEdge after `if (activeLength == 0) activeEdge = text[i]'
CppCurActiveEdge == IF activeLength = 0 THEN CppTextAt(i) ELSE activeEdge
CppCurEdgeIndex == getIndex(CppCurActiveEdge)
CppCurNext == nodes[activeNode].children[CppCurEdgeIndex]

\* createSuffixLink(node, setToNode): the store and lastCreatedNode after it
createSuffixLink(store, node, setToNode) ==
    [store |-> IF lastCreatedNode # Null
               THEN [store EXCEPT ![lastCreatedNode].suffixLink = node]
               ELSE store,
     lastCreatedNode |-> IF setToNode THEN node ELSE Null]

\* the positions of text and the children indices an iteration of the while
\* loop of phase i has used: text[i] for activeEdge when activeLength == 0,
\* getIndex(activeEdge), then what the branch taken adds
IterationReads(pos, idx) ==
    [phase |-> i,
     pos |-> (IF activeLength = 0 THEN {i} ELSE {}) \cup pos,
     idx |-> {CppCurEdgeIndex} \cup idx]

\* end of a loop iteration that inserted a leaf: the decrement, setActivePoint,
\* the next test of the while condition and, when it fails, i++; pos and idx
\* are the text positions read and the indices computed earlier in the iteration
CppAfterInsertion(ae, pos, idx) ==
    /\ remainingSuffixCount' = remainingSuffixCount - 1
    /\ IF activeNode = RootId /\ activeLength > 0
       THEN /\ activeLength' = activeLength - 1
            /\ activeEdge' = CppTextAt(i - remainingSuffixCount' + 1)
            /\ activeNode' = activeNode
            /\ reads' = IterationReads(pos \cup {i - remainingSuffixCount' + 1}, idx)
       ELSE /\ activeLength' = activeLength
            /\ reads' = IterationReads(pos, idx)
            /\ activeEdge' = ae
            /\ activeNode' = IF activeNode # RootId
                             THEN (IF nodes'[activeNode].suffixLink # Null
                                   THEN nodes'[activeNode].suffixLink ELSE RootId)
                             ELSE activeNode
    /\ IF remainingSuffixCount' > 0
       THEN pc' = "while" /\ i' = i
       ELSE pc' = "for" /\ i' = i + 1

\* loop iteration, rule 2 without a split: a new leaf under activeNode
CppNewLeaf ==
    /\ pc = "while"
    /\ CppCurNext = Null
    /\ LET leaf == Len(nodes) + 1
           added == Append(nodes, CppNode(i, LeafEndPtr))
           hung == SetChild(added, activeNode, CppCurEdgeIndex, leaf)
           linked == createSuffixLink(hung, activeNode, FALSE)
       IN  /\ nodes' = linked.store
           /\ lastCreatedNode' = linked.lastCreatedNode
    /\ CppAfterInsertion(CppCurActiveEdge, {}, {})
    /\ UNCHANGED <<text, leafEnd, steps, cloneHeap, firstCall, currentStepIndex, cppVars,
                   queryVars>>

\* walkDown without `activeLength -= nextNode->edgeLength()'
CppWalkDownKeepsLength ==
    /\ pc = "while"
    /\ CppCurNext # Null
    /\ LET nextNode == nodes[CppCurNext] IN
       /\ activeLength >= CppEdgeLength(nextNode)
       /\ activeEdge' = CppTextAt(nextNode.start + activeLength)
       /\ activeLength' = activeLength
       /\ activeNode' = CppCurNext
       /\ reads' = IterationReads({nextNode.start + activeLength}, {})
    /\ UNCHANGED <<text, nodes, remainingSuffixCount, leafEnd, lastCreatedNode,
                   steps, cloneHeap, firstCall, currentStepIndex, pc, i, cppVars,
                   queryVars>>

\* loop iteration, walkDown(nextNode) returned true: `continue'
CppWalkDown ==
    /\ pc = "while"
    /\ CppCurNext # Null
    /\ LET nextNode == nodes[CppCurNext] IN
       /\ activeLength >= CppEdgeLength(nextNode)
       /\ activeEdge' = CppTextAt(nextNode.start + activeLength)
       /\ activeLength' = activeLength - CppEdgeLength(nextNode)
       /\ activeNode' = CppCurNext
       /\ reads' = IterationReads({nextNode.start + activeLength}, {})
    /\ UNCHANGED <<text, nodes, remainingSuffixCount, leafEnd, lastCreatedNode,
                   steps, cloneHeap, firstCall, currentStepIndex, pc, i, cppVars,
                   queryVars>>

\* loop iteration, rule 3: the next symbol on the edge is text[i], `break'
CppRule3 ==
    /\ pc = "while"
    /\ CppCurNext # Null
    /\ activeLength < CppEdgeLength(nodes[CppCurNext])
    /\ CppTextAt(nodes[CppCurNext].start + activeLength) = CppTextAt(i)
    /\ activeLength' = activeLength + 1
    /\ nodes' = IF lastCreatedNode # Null
                THEN [nodes EXCEPT ![lastCreatedNode].suffixLink = activeNode]
                ELSE nodes
    /\ activeEdge' = CppCurActiveEdge
    /\ pc' = "for"
    /\ i' = i + 1
    /\ reads' = IterationReads({nodes[CppCurNext].start + activeLength, i}, {})
    /\ UNCHANGED <<text, activeNode, remainingSuffixCount, leafEnd,
                   lastCreatedNode, steps, cloneHeap, firstCall, currentStepIndex,
                   cppVars, queryVars>>

\* splitEdge(nextNode, currentActiveLength): the store after it; the split
\* node is the new last entry
splitEdge(store, nextNode, currentActiveLength, ae) ==
    LET splitPosition == store[nextNode].start + currentActiveLength - 1
        splitNode == Len(store) + 1
        s1 == Append(store, CppNode(store[nextNode].start, <<splitPosition>>))
        s2 == SetChild(s1, activeNode, getIndex(ae), splitNode)
        s3 == SetChild(s2, splitNode, getIndex(CppTextAt(splitPosition + 1)), nextNode)
    IN  [s3 EXCEPT ![nextNode].start = splitPosition + 1]

\* loop iteration, rule 2 with a split of the active edge
CppSplitEdge ==
    /\ pc = "while"
    /\ CppCurNext # Null
    /\ activeLength < CppEdgeLength(nodes[CppCurNext])
    /\ CppTextAt(nodes[CppCurNext].start + activeLength) # CppTextAt(i)
    /\ LET split == splitEdge(nodes, CppCurNext, activeLength, CppCurActiveEdge)
           splitNode == Len(split)
           leaf == Len(split) + 1
           added == Append(split, CppNode(i, LeafEndPtr))
           hung == SetChild(added, splitNode, getIndex(CppTextAt(i)), leaf)
           linked == createSuffixLink(hung, splitNode, TRUE)
       IN  /\ nodes' = linked.store
           /\ lastCreatedNode' = linked.lastCreatedNode
    /\ LET splitPosition == nodes[CppCurNext].start + activeLength - 1 IN
       CppAfterInsertion(CppCurActiveEdge,
                         {nodes[CppCurNext].start + activeLength, i, splitPosition + 1},
                         {getIndex(CppTextAt(splitPosition + 1)), getIndex(CppTextAt(i))})
    /\ UNCHANGED <<text, leafEnd, steps, cloneHeap, firstCall, currentStepIndex, cppVars,
                   queryVars>>

RECURSIVE CppSetSuffixIndexByDFS(_, _, _), CppSetSuffixIndexChildren(_, _, _, _)
\* setSuffixIndexByDFS(node, labelHeight): the node store after the traversal
CppSetSuffixIndexByDFS(store, n, labelHeight) ==
    IF n = Null THEN store
    ELSE LET after == CppSetSuffixIndexChildren(store, n, labelHeight,
                                                ChildIndices(store[n])) IN
         IF IsLeafNode(store, n)
         THEN [after EXCEPT ![n].suffixIndex = Len(text) - labelHeight]
         ELSE after
CppSetSuffixIndexChildren(store, n, labelHeight, cs) ==
    IF cs = <<>> THEN store
    ELSE LET child == store[n].children[Head(cs)] IN
         CppSetSuffixIndexChildren(
             CppSetSuffixIndexByDFS(store, child,
                                    labelHeight + CppEdgeLength(store[child])),
             n, labelHeight, Tail(cs))

\* constructor, after buildSuffixTree(): setSuffixIndexByDFS(root, 0)
CppSetSuffixIndex ==
    /\ pc = "for"
    /\ i >= Len(text)
    /\ nodes' = CppSetSuffixIndexByDFS(nodes, RootId, 0)
    /\ pc' = "done"
    /\ UNCHANGED <<text, activeNode, activeEdge, activeLength, remainingSuffixCount,
                   leafEnd, lastCreatedNode, histVars, i, cppVars, queryVars>>

RECURSIVE CppCompareEdge(_, _, _, _, _)
\* for (int i = 0; i < len; i++) if (text[v->start + i] != pattern[pos + i]) ...:
\* TRUE when no character differs
CppCompareEdge(v, len, k, pattern, pos) ==
    IF k < len
    THEN IF CppTextAt(v.start + k) # pattern[pos + k + 1]
         THEN FALSE
         ELSE CppCompareEdge(v, len, k + 1, pattern, pos)
    ELSE TRUE

\* v->children[idx] is an access inside the array int children[ALPHABET_SIZE]
InBounds(idx) == idx >= 0 /\ idx < ALPHABET_SIZE

\* what a descent yields once it has indexed children outside the array:
\* the value read there is indeterminate
Wild == 0 - 1

RECURSIVE CppSearchFrom(_, _, _)
\* the loop of search: found is the value returned when every access is
\* inside the array, wild tells that children was indexed outside it
CppSearchFrom(v, pos, pattern) ==
    IF pos < Len(pattern)
    THEN LET idx == getIndex(pattern[pos + 1]) IN
         IF ~InBounds(idx) THEN [found |-> FALSE, wild |-> TRUE]
         ELSE LET child == nodes[v].children[idx] IN
              IF child = Null THEN [found |-> FALSE, wild |-> FALSE]
              ELSE LET edgeLen == CppEdgeLength(nodes[child])
                       len == IF edgeLen < Len(pattern) - pos
                              THEN edgeLen ELSE Len(pattern) - pos
                   IN  IF ~CppCompareEdge(nodes[child], len, 0, pattern, pos)
                       THEN [found |-> FALSE, wild |-> FALSE]
                       ELSE CppSearchFrom(child, pos + len, pattern)
    ELSE [found |-> TRUE, wild |-> FALSE]

\* search(pattern)
CppSearchResult(pattern) == CppSearchFrom(RootId, 0, pattern)

RECURSIVE CppFindFrom(_, _, _)
\* the descent of findAllMatches: the node reached, Null when the pattern is
\* absent, Wild when children was indexed outside the array
CppFindFrom(v, pos, pattern) ==
    IF pos < Len(pattern)
    THEN LET idx == getIndex(pattern[pos + 1]) IN
         IF ~InBounds(idx) THEN Wild
         ELSE LET child == nodes[v].children[idx] IN
              IF child = Null THEN Null
              ELSE LET edgeLen == CppEdgeLength(nodes[child])
                       len == IF edgeLen < Len(pattern) - pos
                              THEN edgeLen ELSE Len(pattern) - pos
                   IN  IF ~CppCompareEdge(nodes[child], len, 0, pattern, pos)
                       THEN Null
                       ELSE CppFindFrom(child, pos + len, pattern)
    ELSE v

RECURSIVE getLeafIndices(_), getLeafIndicesChildren(_, _)
\* getLeafIndices(node, matches): what it pushes onto matches, in order
getLeafIndices(n) ==
    getLeafIndicesChildren(n, ChildIndices(nodes[n]))
        \o (IF IsLeafNode(nodes, n) THEN <<nodes[n].suffixIndex>> ELSE <<>>)
getLeafIndicesChildren(n, cs) ==
    IF cs = <<>> THEN <<>>
    ELSE getLeafIndices(nodes[n].children[Head(cs)])
             \o getLeafIndicesChildren(n, Tail(cs))

RECURSIVE InsertInt(_, _)
InsertInt(sorted, x) ==
    IF sorted = <<>> THEN <<x>>
    ELSE IF x < Head(sorted) THEN <<x>> \o sorted
         ELSE <<Head(sorted)>> \o InsertInt(Tail(sorted), x)

RECURSIVE StdSort(_)
\* std::sort(matches.begin(), matches.end())
StdSort(s) == IF s = <<>> THEN <<>> ELSE InsertInt(StdSort(Tail(s)), Head(s))

RECURSIVE StdUnique(_)
\* matches.erase(unique(...), matches.end()): drops adjacent duplicates
StdUnique(s) ==
    IF Len(s) <= 1 THEN s
    ELSE IF s[1] = s[2] THEN StdUnique(Tail(s))
         ELSE <<s[1]>> \o StdUnique(Tail(s))

\* findAllMatches(pattern)
CppFindAllMatchesResult(pattern) ==
    LET v == CppFindFrom(RootId, 0, pattern) IN
    IF v = Null THEN <<>> ELSE StdUnique(StdSort(getLeafIndices(v)))

\* text.substr(pos, len)
substr(s, pos, len) == SubSeq(s, pos + 1, Min2(pos + len, Len(s)))

RECURSIVE lrsDFS(_, _, _, _), lrsDFSChildren(_, _, _, _, _)
\* lrsDFS(node, depth, pathSoFar); best = [maxDepth, bestString] are the fields
lrsDFS(n, depth, pathSoFar, best) ==
    IF n = Null THEN best
    ELSE lrsDFSChildren(n, depth, pathSoFar,
                        IF ChildCount(n) >= 2 /\ depth > best.maxDepth
                        THEN [maxDepth |-> depth, bestString |-> pathSoFar]
                        ELSE best,
                        ChildIndices(nodes[n]))
lrsDFSChildren(n, depth, pathSoFar, best, cs) ==
    IF cs = <<>> THEN best
    ELSE LET child == nodes[n].children[Head(cs)]
             length == CppEdgeLength(nodes[child])
             edgeLabel == substr(text, nodes[child].start, length)
         IN  lrsDFSChildren(n, depth, pathSoFar,
                            lrsDFS(child, depth + length, pathSoFar \o edgeLabel, best),
                            Tail(cs))

RECURSIVE ImplicitCandidates(_, _, _, _, _)
\* variant of ImplicitCandidates: a candidate of equal length replaces the current one
ImplicitCandidatesLastWins(n, depth, pathSoFar, acc, cs) ==
    IF cs = <<>> THEN acc
    ELSE LET child == nodes[n].children[Head(cs)]
             candidate == pathSoFar \o substr(text, nodes[child].start, 1)
         IN  ImplicitCandidates(n, depth, pathSoFar,
                 IF /\ IsLeafNode(nodes, child)
                    /\ depth + 1 <= acc.minLength
                    /\ ~includes(candidate, Dollar)
                 THEN [acc EXCEPT !.minLength = depth + 1, !.bestString = candidate]
                 ELSE acc,
                 Tail(cs))

\* second loop of dfsShortestUnique: one-symbol extensions onto leaf children
ImplicitCandidates(n, depth, pathSoFar, acc, cs) ==
    IF cs = <<>> THEN acc
    ELSE LET child == nodes[n].children[Head(cs)]
             candidate == pathSoFar \o substr(text, nodes[child].start, 1)
         IN  ImplicitCandidates(n, depth, pathSoFar,
                 IF /\ IsLeafNode(nodes, child)
                    /\ depth + 1 < acc.minLength
                    /\ ~includes(candidate, Dollar)
                 THEN [acc EXCEPT !.minLength = depth + 1, !.bestString = candidate]
                 ELSE acc,
                 Tail(cs))

RECURSIVE dfsShortestUnique(_, _, _, _), dfsShortestUniqueChildren(_, _, _, _, _)
\* dfsShortestUnique(node, depth, pathSoFar); acc = [totalLeaves, minLength,
\* bestString]: the value returned and the two fields
dfsShortestUnique(n, depth, pathSoFar, acc) ==
    IF n = Null THEN [acc EXCEPT !.totalLeaves = 0]
    ELSE LET cs == ChildIndices(nodes[n])
             sub == dfsShortestUniqueChildren(n, depth, pathSoFar,
                                              [acc EXCEPT !.totalLeaves = 0], cs)
         IN  IF cs = <<>> THEN [sub EXCEPT !.totalLeaves = 1]
             ELSE ImplicitCandidates(n, depth, pathSoFar,
                      IF /\ sub.totalLeaves = 1
                         /\ depth < sub.minLength
                         /\ ~includes(pathSoFar, Dollar)
                      THEN [sub EXCEPT !.minLength = depth, !.bestString = pathSoFar]
                      ELSE sub,
                      cs)
dfsShortestUniqueChildren(n, depth, pathSoFar, acc, cs) ==
    IF cs = <<>> THEN acc
    ELSE LET child == nodes[n].children[Head(cs)]
             len == CppEdgeLength(nodes[child])
             edgeLabel == substr(text, nodes[child].start, len)
             r == dfsShortestUnique(child, depth + len, pathSoFar \o edgeLabel, acc)
         IN  dfsShortestUniqueChildren(n, depth, pathSoFar,
                 [r EXCEPT !.totalLeaves = acc.totalLeaves + r.totalLeaves],
                 Tail(cs))

\* search(pattern).  An access outside children is undefined behaviour: the
\* call may return either value, or the run may stop in an error (pc = "ub").
CppSearchCall(p) ==
    /\ pc = "done"
    /\ op = "none"
    /\ op' = "search"
    /\ arg' = p
    /\ LET r == CppSearchResult(p) IN
       IF r.wild
       THEN /\ ret' \in BOOLEAN
            /\ pc' \in {"done", "ub"}
       ELSE /\ ret' = r.found
            /\ pc' = pc
    /\ UNCHANGED <<text, treeVars, steps, cloneHeap, currentStepIndex, reads,
                   cppVars, i>>

CppSearch ==
    \E p \in CppPatterns : CppSearchCall(p) /\ UNCHANGED firstCall

\* findAllMatches(pattern), with the same undefined behaviour
CppFindAllMatchesCall(p) ==
    /\ pc = "done"
    /\ op = "none"
    /\ op' = "findAllMatches"
    /\ arg' = p
    /\ IF CppFindFrom(RootId, 0, p) = Wild
       THEN /\ ret' \in {<<>>, <<0>>}
            /\ pc' \in {"done", "ub"}
       ELSE /\ ret' = CppFindAllMatchesResult(p)
            /\ pc' = pc
    /\ UNCHANGED <<text, treeVars, steps, cloneHeap, currentStepIndex, reads,
                   cppVars, i>>

CppFindAllMatches ==
    \E p \in CppPatterns : CppFindAllMatchesCall(p) /\ UNCHANGED firstCall

\* longestRepeatedSubstring()
CppLongestRepeatedSubstringCall ==
    /\ pc = "done"
    /\ op = "none"
    /\ LET best == lrsDFS(RootId, 0, <<>>, [maxDepth |-> 0, bestString |-> <<>>]) IN
       /\ maxDepth' = best.maxDepth
       /\ bestString' = best.bestString
       /\ ret' = best.bestString
    /\ op' = "longestRepeatedSubstring"
    /\ arg' = <<>>
    /\ UNCHANGED <<text, treeVars, steps, cloneHeap, currentStepIndex, reads,
                   minLength, pc, i>>

\* shortestUniqueSubstring()
CppShortestUniqueSubstringCall ==
    /\ pc = "done"
    /\ op = "none"
    /\ LET r == dfsShortestUnique(RootId, 0, <<>>,
                    [totalLeaves |-> 0, minLength |-> INT_MAX, bestString |-> <<>>]) IN
       /\ minLength' = r.minLength
       /\ bestString' = r.bestString
       /\ ret' = r.bestString
    /\ op' = "shortestUniqueSubstring"
    /\ arg' = <<>>
    /\ UNCHANGED <<text, treeVars, steps, cloneHeap, currentStepIndex, reads,
                   maxDepth, pc, i>>

CppLongestRepeatedSubstring ==
    CppLongestRepeatedSubstringCall /\ UNCHANGED firstCall

CppShortestUniqueSubstring ==
    CppShortestUniqueSubstringCall /\ UNCHANGED firstCall

NextCpp ==
    \/ CppBuildSuffixTree
    \/ CppExtendSuffixTree
    \/ CppNewLeaf
    \/ CppWalkDown
    \/ CppRule3
    \/ CppSplitEdge
    \/ CppSetSuffixIndex
    \/ CppSearch
    \/ CppFindAllMatches
    \/ CppLongestRepeatedSubstring
    \/ CppShortestUniqueSubstring
    \/ Return

SpecCpp == InitCpp /\ [][NextCpp]_vars

\* the constructor alone
NextCppBuild ==
    \/ CppBuildSuffixTree
    \/ CppExtendSuffixTree
    \/ CppNewLeaf
    \/ CppWalkDown
    \/ CppRule3
    \/ CppSplitEdge
    \/ CppSetSuffixIndex

InitCppBuild == \E t \in CppBuildTexts : NewCppSuffixTree(t)

SpecCppBuild == InitCppBuild /\ [][NextCppBuild]_vars

-----------------------------------------------------------------------------
(* Sequences of queries on one finished C++ tree; firstCall keeps the      *)
(* first call made on the tree and what it returned                         *)

ABAA == <<CharA, CharB, CharA, CharA, Dollar>>
SeqTexts == {Append(s, Dollar) : s \in SeqsUpTo({CharA, CharB}, MaxSeqLen)}
                \cup {ABAA}
SeqPatterns == SeqsUpTo({CharA, CharB}, MaxSeqPat) \cup {<<LowerA>>}

InitCppSeq == InitCpp /\ text \in SeqTexts

RememberFirst ==
    firstCall' = IF firstCall = NoCall
                 THEN [op |-> op', arg |-> arg', ret |-> ret']
                 ELSE firstCall

SeqSearch == \E p \in SeqPatterns : CppSearchCall(p) /\ RememberFirst

SeqFindAllMatches == \E p \in SeqPatterns : CppFindAllMatchesCall(p) /\ RememberFirst

SeqLongestRepeatedSubstring == CppLongestRepeatedSubstringCall /\ RememberFirst

SeqShortestUniqueSubstring == CppShortestUniqueSubstringCall /\ RememberFirst

NextCppSeq ==
    \/ CppBuildSuffixTree
    \/ CppExtendSuffixTree
    \/ CppNewLeaf
    \/ CppWalkDown
    \/ CppRule3
    \/ CppSplitEdge
    \/ CppSetSuffixIndex
    \/ SeqSearch
    \/ SeqFindAllMatches
    \/ SeqLongestRepeatedSubstring
    \/ SeqShortestUniqueSubstring
    \/ Return

SpecCppSeq == InitCppSeq /\ [][NextCppSeq]_vars

-----------------------------------------------------------------------------
(* The page (gui/main.js): handlers of the buttons *)

Space == 32
LowerZ == LowerA + 25

RECURSIVE trimStart(_)
trimStart(s) ==
    IF s # <<>> /\ Head(s) = Space THEN trimStart(Tail(s)) ELSE s

RECURSIVE trimEnd(_)
trimEnd(s) ==
    IF s # <<>> /\ s[Len(s)] = Space THEN trimEnd(SubSeq(s, 1, Len(s) - 1)) ELSE s

\* String.prototype.trim
trim(s) == trimEnd(trimStart(s))

\* String.prototype.toUpperCase
toUpperCase(s) ==
    [k \in 1..Len(s) |->
        IF s[k] >= LowerA /\ s[k] <= LowerZ THEN s[k] - LowerA + CharA ELSE s[k]]

\* userInput.endsWith("$")
endsWith(s, c) == s # <<>> /\ s[Len(s)] = c

\* what the user may have typed into a field: symbols, with blanks around
Typed(core) == {pre \o w \o post : pre \in {<<>>, <<Space>>},
                                  w \in core,
                                  post \in {<<>>, <<Space>>}}
BuildInputs ==
    Typed(SeqsUpTo({CharA, LowerA, CharB, Dollar}, MaxInput)
              \cup {<<LowerA, CharB, LowerA, LowerA>>})
PatternInputs == Typed(SeqsUpTo({LowerA, CharB}, 1))

\* the page after the script has run: suffixTree = null, currentStepIndex = 0
InitGui ==
    /\ text = <<>>
    /\ nodes = <<>>
    /\ activeNode = Null
    /\ activeEdge = 0 - 1
    /\ activeLength = 0
    /\ remainingSuffixCount = 0
    /\ leafEnd = 0 - 1
    /\ lastCreatedNode = Null
    /\ steps = <<>>
    /\ cloneHeap = <<>>
    /\ firstCall = NoCall
    /\ currentStepIndex = 0
    /\ reads = NoReads
    /\ maxDepth = 0
    /\ bestString = <<>>
    /\ minLength = 0
    /\ pc = "page"
    /\ i = 0
    /\ op = "none"
    /\ arg = <<>>
    /\ ret = <<>>

\* the text the build handler hands to the constructor
GuiText(userInput) ==
    IF endsWith(userInput, Dollar) THEN userInput ELSE Append(userInput, Dollar)

\* userInput of the build handler: inputStringEl.value.trim().toUpperCase()
UserInputs == {toUpperCase(trim(typed)) : typed \in BuildInputs}

\* the build handler from `if (!userInput) return' on: it returns at once on
\* an empty trimmed input; otherwise a new SuffixTree object replaces the old
\* one, the constructor runs (pc = "new" onwards) and the handler ends with
\* currentStepIndex = 0
buildTreeBtnHandler(userInput) ==
    IF userInput = <<>>
    THEN UNCHANGED vars
    ELSE /\ text' = GuiText(userInput)
         /\ nodes' = <<>>
         /\ activeNode' = Null
         /\ activeEdge' = 0 - 1
         /\ activeLength' = 0
         /\ remainingSuffixCount' = 0
         /\ leafEnd' = 0 - 1
         /\ lastCreatedNode' = Null
         /\ steps' = <<>>
         /\ cloneHeap' = <<>>
         /\ currentStepIndex' = 0
         /\ pc' = "new"
         /\ i' = 0
         /\ UNCHANGED <<cppVars, queryVars, firstCall, reads>>

\* click on buildTreeBtn
buildTreeBtnClick ==
    /\ pc \in {"page", "done"}
    /\ op = "none"
    /\ \E userInput \in UserInputs : buildTreeBtnHandler(userInput)

\* mutation of the Prev handler: plain decrement
prevBtnClickUnclamped ==
    /\ pc \in {"page", "done"}
    /\ op = "none"
    /\ IF pc = "page" \/ Len(steps) = 0
       THEN UNCHANGED vars
       ELSE /\ currentStepIndex' = currentStepIndex - 1
            /\ UNCHANGED <<text, treeVars, steps, cloneHeap, firstCall, reads,
                           cppVars, queryVars, pc, i>>

\* click on prevBtn: nothing without a tree (suffixTree is null until the
\* first build has returned) or without steps
prevBtnClick ==
    /\ pc \in {"page", "done"}
    /\ op = "none"
    /\ IF pc = "page" \/ Len(steps) = 0
       THEN UNCHANGED vars
       ELSE /\ currentStepIndex' = Max2(0, currentStepIndex - 1)
            /\ UNCHANGED <<text, treeVars, steps, cloneHeap, firstCall, reads,
                           cppVars, queryVars, pc, i>>

\* click on nextBtn
nextBtnClick ==
    /\ pc \in {"page", "done"}
    /\ op = "none"
    /\ IF pc = "page" \/ Len(steps) = 0
       THEN UNCHANGED vars
       ELSE /\ currentStepIndex' = Min2(Len(steps) - 1, currentStepIndex + 1)
            /\ UNCHANGED <<text, treeVars, steps, cloneHeap, firstCall, reads,
                           cppVars, queryVars, pc, i>>

\* click on searchBtn: nothing without a tree or with an empty trimmed pattern
searchBtnClick ==
    \E typed \in PatternInputs :
        LET pattern == toUpperCase(trim(typed)) IN
        IF pc = "page" \/ pattern = <<>>
        THEN pc \in {"page", "done"} /\ op = "none" /\ UNCHANGED vars
        ELSE SearchCall(pattern)

\* click on allMatchesBtn
allMatchesBtnClick ==
    \E typed \in PatternInputs :
        LET pattern == toUpperCase(trim(typed)) IN
        IF pc = "page" \/ pattern = <<>>
        THEN pc \in {"page", "done"} /\ op = "none" /\ UNCHANGED vars
        ELSE FindAllMatchesCall(pattern)

\* click on lrsBtn
lrsBtnClick ==
    IF pc = "page"
    THEN op = "none" /\ UNCHANGED vars
    ELSE LongestRepeatedSubstring

\* click on susBtn
susBtnClick ==
    IF pc = "page"
    THEN op = "none" /\ UNCHANGED vars
    ELSE ShortestUniqueSubstring

NextGui ==
    \/ buildTreeBtnClick
    \/ buildSuffixTreeStepByStep
    \/ extendSuffixTree
    \/ NewLeaf
    \/ walkDown
    \/ Rule3
    \/ SplitEdge
    \/ recordStep
    \/ SetSuffixIndex
    \/ prevBtnClick
    \/ nextBtnClick
    \/ searchBtnClick
    \/ allMatchesBtnClick
    \/ lrsBtnClick
    \/ susBtnClick
    \/ Return

SpecGui == InitGui /\ [][NextGui]_vars

-----------------------------------------------------------------------------
(* The console program (main.cpp) *)

\* capitalizeString(s)
capitalizeString(s) ==
    [k \in 1..Len(s) |->
        IF s[k] >= LowerA /\ s[k] <= LowerZ THEN s[k] - LowerA + CharA ELSE s[k]]

\* the words `cin >> input' may read: no blank inside; empty at end of input
MainInputs == SeqsUpTo({CharA, LowerA, CharB, Dollar}, MaxInput)
                  \cup {<<LowerA, CharB, LowerA, LowerA>>}

\* main before `cin >> input'
InitMain ==
    /\ text = <<>>
    /\ nodes = <<>>
    /\ activeNode = Null
    /\ activeEdge = NulChar
    /\ activeLength = 0
    /\ remainingSuffixCount = 0
    /\ leafEnd = 0 - 1
    /\ lastCreatedNode = Null
    /\ steps = <<>>
    /\ cloneHeap = <<>>
    /\ firstCall = NoCall
    /\ currentStepIndex = 0
    /\ reads = NoReads
    /\ maxDepth = 0
    /\ bestString = <<>>
    /\ minLength = INT_MAX
    /\ pc = "main"
    /\ i = 0
    /\ op = "none"
    /\ arg = <<>>
    /\ ret = <<>>

\* cin >> input; capitalizeString(input); input.push_back('$'); then the
\* constructor SuffixTree st(input) starts
mainReadInput ==
    /\ pc = "main"
    /\ \E input \in MainInputs :
         text' = Append(capitalizeString(input), Dollar)
    /\ pc' = "new"
    /\ UNCHANGED <<treeVars, histVars, cppVars, queryVars, i>>

\* the patterns main passes to search and findAllMatches
mainSearch ==
    \E word \in PatternInputs :
        Len(trim(word)) = Len(word) /\ word # <<>>
            /\ CppSearchCall(capitalizeString(word)) /\ UNCHANGED firstCall

mainFindAllMatches ==
    \E word \in PatternInputs :
        Len(trim(word)) = Len(word) /\ word # <<>>
            /\ CppFindAllMatchesCall(capitalizeString(word)) /\ UNCHANGED firstCall

NextMain ==
    \/ mainReadInput
    \/ CppBuildSuffixTree
    \/ CppExtendSuffixTree
    \/ CppNewLeaf
    \/ CppWalkDown
    \/ CppRule3
    \/ CppSplitEdge
    \/ CppSetSuffixIndex
    \/ mainSearch
    \/ mainFindAllMatches
    \/ CppLongestRepeatedSubstring
    \/ CppShortestUniqueSubstring
    \/ Return

SpecMain == InitMain /\ [][NextMain]_vars

-----------------------------------------------------------------------------
(* Reference definitions on the text alone *)

\* start positions (0-based) at which p occurs in t
Occurrences(t, p) ==
    {k \in 0..(Len(t) - Len(p)) : SubSeq(t, k + 1, k + Len(p)) = p}

Occurs(t, p) == Occurrences(t, p) # {}

\* the ascending duplicate-free list of the elements of S
SetToSortedSeq(S) ==
    [k \in 1..Cardinality(S) |->
        CHOOSE x \in S : Cardinality({y \in S : y < x}) = k - 1]

\* the non-empty substrings of t
Substrings(t) ==
    {SubSeq(t, a, b) : a \in 1..Len(t), b \in 1..Len(t)} \ {<<>>}

-----------------------------------------------------------------------------
(* Properties of the JS engine *)

InAlphabet(p) == \A k \in 1..Len(p) : p[k] \in Letters \cup {Dollar}

Finished == pc = "done" /\ ValidText(text)

Returned(o) == Finished /\ op = o

\* C1: on a valid text, search(p) of a non-empty pattern p over 'A'..'Z','$'
\* is true exactly when p occurs in the text as a contiguous substring.
C1_SearchIffSubstring ==
    (Returned("search") /\ arg # <<>> /\ InAlphabet(arg))
        => (ret = Occurs(text, arg))

C1_Witness ==
    /\ Returned("search")
    /\ Len(text) >= 5
    /\ Len(arg) = 3
    /\ InAlphabet(arg)
    /\ ret = TRUE
    /\ \E n \in 1..Len(nodes) : n # RootId /\ ~IsLeafNode(nodes, n)

\* C2: on a valid text, findAllMatches(p) of a non-empty pattern p is the
\* ascending duplicate-free list of all start positions of p in the text
\* (empty when p does not occur); "BANANA$"/"ANA" gives [1,3] and
\* "AAAA$"/"A" gives [0,1,2,3].
C2_FindAllMatchesExact ==
    (Returned("findAllMatches") /\ arg # <<>>)
        => /\ ret = SetToSortedSeq(Occurrences(text, arg))
           /\ (text = BANANA /\ arg = ANA) => ret = <<1, 3>>
           /\ (text = AAAA /\ arg = <<CharA>>) => ret = <<0, 1, 2, 3>>

C2_Witness ==
    /\ Returned("findAllMatches")
    /\ text = BANANA
    /\ arg = ANA
    /\ ret = <<1, 3>>

RECURSIVE LeafPaths(_, _), LeafPathsChildren(_, _, _)
\* the pairs <<leaf, path label>> of the leaves below node n, whose path label is path
LeafPaths(n, path) ==
    IF IsLeafNode(nodes, n) THEN {<<n, path>>}
    ELSE LeafPathsChildren(n, path, ChildIndices(nodes[n]))
LeafPathsChildren(n, path, cs) ==
    IF cs = <<>> THEN {}
    ELSE LET child == nodes[n].children[Head(cs)] IN
         LeafPaths(child,
                   path \o SubSeq(text, nodes[child].start + 1,
                                  nodes[child].start + edgeLength(nodes[child], leafEnd)))
         \cup LeafPathsChildren(n, path, Tail(cs))

\* C5: after construction from a valid text of length m the tree has exactly m
\* leaves, their suffixIndex values are pairwise distinct and are exactly
\* 0..m-1, and the path label of the leaf with suffixIndex k is text[k..m-1].
C5_LeavesAreSuffixes ==
    Finished =>
        LET m == Len(text)
            LP == LeafPaths(RootId, <<>>)
            leaves == {n \in 1..Len(nodes) : IsLeafNode(nodes, n)}
        IN  /\ Cardinality(leaves) = m
            /\ {lp[1] : lp \in LP} = leaves
            /\ \A a, b \in leaves : a # b => nodes[a].suffixIndex # nodes[b].suffixIndex
            /\ {nodes[n].suffixIndex : n \in leaves} = 0..(m - 1)
            /\ \A lp \in LP :
                   lp[2] = SubSeq(text, nodes[lp[1]].suffixIndex + 1, m)

C5_Witness ==
    /\ Finished
    /\ Len(text) >= 5
    /\ \E n \in 1..Len(nodes) :
           /\ n # RootId
           /\ ~IsLeafNode(nodes, n)
           /\ nodes[n].suffixLink # Null
           /\ nodes[n].suffixLink # RootId

\* lexicographic order of strings by character code, for the reference definitions
RefLexLeq(a, b) ==
    \/ \E k \in 1..Min2(Len(a), Len(b)) :
           /\ \A j \in 1..(k - 1) : a[j] = b[j]
           /\ a[k] < b[k]
    \/ /\ Len(a) <= Len(b)
       /\ \A j \in 1..Len(a) : a[j] = b[j]

\* the '$'-free substrings of t that occur at exactly one start position
UniqueSubstrings(t) ==
    {s \in Substrings(t) : ~includes(s, Dollar) /\ Cardinality(Occurrences(t, s)) = 1}

\* reference definition of the shortest unique substring
RefSUS(t) ==
    LET U == UniqueSubstrings(t) IN
    IF U = {} THEN <<>>
    ELSE CHOOSE s \in U :
             \A u \in U : \/ Len(s) < Len(u)
                          \/ Len(s) = Len(u) /\ RefLexLeq(s, u)

\* C6: the brute-force shortestUniqueSubstring returns the shortest '$'-free
\* substring with exactly one occurrence, the lexicographically smallest of
\* that length, and the empty string only for text = "$".
C6_SusIsReference ==
    Returned("shortestUniqueSubstring")
        => /\ ret = RefSUS(text)
           /\ (ret = <<>>) <=> (text = <<Dollar>>)

C6_Witness ==
    /\ Returned("shortestUniqueSubstring")
    /\ Len(ret) = 2
    /\ Cardinality({s \in UniqueSubstrings(text) : Len(s) = 2}) >= 2

\* the substrings of t that occur at two or more start positions
RepeatedSubstrings(t) ==
    {s \in Substrings(t) : Cardinality(Occurrences(t, s)) >= 2}

\* C8: longestRepeatedSubstring returns r such that a non-empty r occurs at
\* two or more start positions and no longer substring does; r is empty
\* exactly when no non-empty substring occurs at two start positions.
C8_LrsIsLongestRepeated ==
    Returned("longestRepeatedSubstring")
        => /\ ret # <<>> =>
                 /\ ret \in RepeatedSubstrings(text)
                 /\ \A s \in RepeatedSubstrings(text) : Len(s) <= Len(ret)
           /\ (ret = <<>>) <=> (RepeatedSubstrings(text) = {})

C8_Witness ==
    /\ Returned("longestRepeatedSubstring")
    /\ Len(ret) >= 2
    /\ \E a, b \in Occurrences(text, ret) : a < b /\ b < a + Len(ret)

\* C9: among the repeated substrings of greatest length, longestRepeatedSubstring
\* returns the lexicographically smallest one; for "BANANA$" it returns "ANA".
C9_LrsTieBreak ==
    Returned("longestRepeatedSubstring")
        => /\ \A s \in RepeatedSubstrings(text) :
                  Len(s) = Len(ret) => RefLexLeq(ret, s)
           /\ text = BANANA => ret = ANA

C9_Witness ==
    /\ Returned("longestRepeatedSubstring")
    /\ ret # <<>>
    /\ Cardinality({s \in RepeatedSubstrings(text) : Len(s) = Len(ret)}) >= 2

\* C10: a pattern with at least one character outside 'A'..'Z','$' is never
\* found: search returns false and findAllMatches returns the empty list.
C10_OutsideAlphabetNeverMatches ==
    (Finished /\ op \in {"search", "findAllMatches"} /\ ~InAlphabet(arg))
        => /\ op = "search" => ret = FALSE
           /\ op = "findAllMatches" => ret = <<>>

C10_Witness ==
    /\ Returned("search")
    /\ arg = <<CharA, LBracket>>
    /\ Occurs(text, <<CharA, Dollar>>)
    /\ ret = FALSE

-----------------------------------------------------------------------------
(* Properties of the C++ engine and of both constructors *)

\* the tree in `nodes' is the suffix tree of text: its leaves spell exactly the
\* suffixes, every internal node but the root branches, and every child hangs
\* under the index of the first symbol of its edge label
IsSuffixTree ==
    LET LP == LeafPaths(RootId, <<>>) IN
    /\ Cardinality(LP) = Len(text)
    /\ {lp[2] : lp \in LP} = {SubSeq(text, k, Len(text)) : k \in 1..Len(text)}
    /\ {lp[1] : lp \in LP} = {n \in 1..Len(nodes) : IsLeafNode(nodes, n)}
    /\ \A n \in 1..Len(nodes) :
           /\ (n # RootId /\ ~IsLeafNode(nodes, n)) => ChildCount(n) >= 2
           /\ \A c \in 0..(ALPHABET_SIZE - 1) :
                  nodes[n].children[c] # Null =>
                      getIndex(CppTextAt(nodes[nodes[n].children[c]].start)) = c

\* C3: C++ engine, on a valid text search(p) of a non-empty pattern p over
\* 'A'..'Z' is true exactly when p occurs in the text as a contiguous substring.
C3_CppSearchIffSubstring ==
    (Returned("search") /\ arg # <<>> /\ \A k \in 1..Len(arg) : arg[k] \in Letters)
        => (ret = Occurs(text, arg))

\* C4: constructing from an invalid text fails with an InvalidInputError before
\* any node is created and before any construction state is changed.
C4_InvalidInputRejected ==
    ~ValidText(text) =>
        /\ pc \in {"new", "InvalidInputError"}
        /\ nodes = <<>>
        /\ activeNode = Null
        /\ leafEnd = 0 - 1
        /\ remainingSuffixCount = 0
        /\ steps = <<>>

\* C7: C++ engine, when the tree is the suffix tree of a valid text,
\* shortestUniqueSubstring returns the shortest '$'-free substring with exactly
\* one occurrence, the lexicographically smallest of that length.
C7_CppSusIsReference ==
    (Returned("shortestUniqueSubstring") /\ IsSuffixTree)
        => ret = RefSUS(text)

C7_Witness ==
    /\ Returned("shortestUniqueSubstring")
    /\ IsSuffixTree
    /\ bestString = ret
    /\ minLength = 2
    /\ Cardinality({s \in UniqueSubstrings(text) : Len(s) = 2}) >= 2
    /\ \E n \in 1..Len(nodes) : n # RootId /\ ~IsLeafNode(nodes, n)


-----------------------------------------------------------------------------
(* Queries of the C++ engine with symbols outside the alphabet *)

\* C11: C++ engine, on a tree built from a valid text, a search or
\* findAllMatches call whose pattern holds a character outside 'A'..'Z', '$'
\* runs without error (no access outside a children array), search returns
\* false and findAllMatches returns an empty vector.
C11_CppOutsidePatternGraceful ==
    (/\ ValidText(text)
     /\ pc \in {"done", "ub"}
     /\ op \in {"search", "findAllMatches"}
     /\ ~InAlphabet(arg))
        => /\ pc = "done"
           /\ op = "search" => ret = FALSE
           /\ op = "findAllMatches" => ret = <<>>

\* C12: on a finished tree, no query changes a field of a node, and a call
\* returns what the first such call on the tree returned, whatever queries
\* ran in between (here for the C++ engine, where longestRepeatedSubstring
\* and shortestUniqueSubstring share bestString).
C12_QueriesIndependent ==
    /\ [](firstCall.op = op /\ firstCall.arg = arg => ret = firstCall.ret)
    /\ [][pc = "done" => nodes' = nodes]_vars

\* the same for calls whose pattern stays inside the alphabet
C12_InAlphabetQueriesIndependent ==
    /\ []((firstCall.op = op /\ firstCall.arg = arg /\ InAlphabet(arg))
            => ret = firstCall.ret)
    /\ [][pc = "done" => nodes' = nodes]_vars

-----------------------------------------------------------------------------
(* Properties of the construction, JS engine *)

\* C13: JS engine, the construction records one snapshot per phase, in phase
\* order: while phase i runs exactly the records of phases 0..i-1 exist, the
\* finished tree has Len(text) records, record k holds pos = k and
\* leafEndSnapshot = k, the record of the phase just completed holds the
\* activeLength and remainingSuffixCount of the end of that phase, and no
\* recorded value changes afterwards.
C13_SnapshotsInPhaseOrder ==
    /\ [](/\ pc \in {"for", "while", "record", "done"} => Len(steps) = i
          /\ pc = "done" => Len(steps) = Len(text)
          /\ \A k \in 1..Len(steps) :
                /\ steps[k].pos = k - 1
                /\ steps[k].leafEndSnapshot = k - 1
          /\ (pc = "for" /\ i > 0) =>
                /\ steps[i].activeLength = activeLength
                /\ steps[i].remainder = remainingSuffixCount
                /\ steps[i].leafEndSnapshot = leafEnd)
    /\ [][\A k \in 1..Len(steps) : Len(steps') >= k /\ steps'[k] = steps[k]]_vars

C13_Witness ==
    /\ pc = "done"
    /\ Len(steps) >= 4
    /\ \E k \in 1..Len(steps) :
          steps[k].remainder >= 2 /\ steps[k].activeLength >= 1

\* the object an address denotes in the heaps live and clones
DerefIn(live, clones, a) == IF a > 0 THEN live[a] ELSE clones[0 - a]

\* the addresses reachable from address a through children and suffixLink
RECURSIVE ReachFrom(_, _, _, _)
ReachFrom(live, clones, todo, seen) ==
    IF todo = {} THEN seen
    ELSE LET a == CHOOSE x \in todo : TRUE
             n == DerefIn(live, clones, a)
             succ == ({n.children[c] : c \in 0..(ALPHABET_SIZE - 1)}
                         \cup {n.suffixLink}) \ {Null}
         IN  ReachFrom(live, clones, (todo \cup succ) \ (seen \cup {a}),
                       seen \cup {a})

Reach(a) == ReachFrom(nodes, cloneHeap, {a}, {})

\* the pairs <<original, clone>> met by descending from a live node and from a
\* snapshot node along the same child indices
RECURSIVE Pairs(_, _), PairsChildren(_, _, _)
Pairs(n, a) == {<<n, a>>} \cup PairsChildren(n, a, ChildIndices(nodes[n]))
PairsChildren(n, a, cs) ==
    IF cs = <<>> THEN {}
    ELSE (IF Deref(a).children[Head(cs)] # Null
          THEN Pairs(nodes[n].children[Head(cs)], Deref(a).children[Head(cs)])
          ELSE {})
         \cup PairsChildren(n, a, Tail(cs))

\* what a snapshot root shows in the heaps live and clones: for every node
\* reachable from it, the address and all the fields
SnapshotView(live, clones, root) ==
    {<<a, DerefIn(live, clones, a)>> : a \in ReachFrom(live, clones, {root}, {})}

\* the snapshot just recorded is a copy of the live tree, node by node
LatestIsCopy ==
    LET P == Pairs(RootId, steps[i].snapshotRoot) IN
    /\ {pr[1] : pr \in P} = 1..Len(nodes)
    /\ \A pr \in P :
         LET orig == nodes[pr[1]]
             clone == Deref(pr[2])
         IN  /\ clone.start = orig.start
             /\ clone.end = orig.end
             /\ clone.suffixIndex = orig.suffixIndex
             /\ \A c \in 0..(ALPHABET_SIZE - 1) :
                    (clone.children[c] = Null) <=> (orig.children[c] = Null)
             /\ (clone.suffixLink = Null) <=> (orig.suffixLink = Null)
             /\ orig.suffixLink # Null => <<orig.suffixLink, clone.suffixLink>> \in P

\* C14: JS engine, every recorded snapshot is an independent deep copy: the
\* nodes reachable from a snapshot root through children and suffixLink are
\* clones, no clone is reachable from two snapshots, the snapshot just taken
\* copies the live tree node by node with every suffixLink pointing to the
\* clone of the original target, and no later step (construction phase or
\* suffix-index pass) changes what a recorded snapshot shows.
C14_SnapshotsAreDeepCopies ==
    /\ [](/\ \A k \in 1..Len(steps) :
                \A a \in Reach(steps[k].snapshotRoot) : a < 0
          /\ \A k, l \in 1..Len(steps) :
                k # l => Reach(steps[k].snapshotRoot)
                            \cap Reach(steps[l].snapshotRoot) = {}
          /\ (pc = "for" /\ i > 0) => LatestIsCopy)
    /\ [][\A k \in 1..Len(steps) :
             /\ Len(steps') >= k
             /\ steps'[k] = steps[k]
             /\ \/ nodes' = nodes /\ cloneHeap' = cloneHeap
                \/ SnapshotView(nodes', cloneHeap', steps[k].snapshotRoot)
                      = SnapshotView(nodes, cloneHeap, steps[k].snapshotRoot)]_vars

C14_Witness ==
    /\ pc = "done"
    /\ Len(steps) >= 4
    /\ \E k \in 1..Len(steps) :
          \E a \in Reach(steps[k].snapshotRoot) :
             /\ Deref(a).suffixLink # Null
             /\ Deref(a).suffixLink # steps[k].snapshotRoot
    /\ \E n \in 1..Len(nodes) : nodes[n].suffixIndex >= 0

-----------------------------------------------------------------------------
(* The text handed to the constructor *)

\* '$' occurs in t exactly once, as the last symbol
OneFinalDollar(t) ==
    /\ Len(t) >= 1
    /\ t[Len(t)] = Dollar
    /\ \A k \in 1..(Len(t) - 1) : t[k] # Dollar

\* C15: whatever the user typed, the text the build handler of the page (and
\* main of the console program) hands to the SuffixTree constructor holds
\* '$' exactly once, as its last symbol.
C15_TextHasOneFinalDollar ==
    pc \notin {"page", "main"} => OneFinalDollar(text)

-----------------------------------------------------------------------------
(* The walk-down step *)

\* C16: C++ engine, a walk-down step of phase i moves the active point onto
\* the node below without changing the pending string it denotes:
\* activeNode becomes that node, activeLength shrinks by the length of the
\* edge crossed and, when symbols remain, activeEdge becomes
\* text[i - activeLength'], the pending symbol at the offset reached.
C16_CppWalkDownKeepsPendingString ==
    [][CppWalkDown =>
          /\ activeNode' = CppCurNext
          /\ activeLength' = activeLength - CppEdgeLength(nodes[CppCurNext])
          /\ activeLength' > 0 => activeEdge' = CppTextAt(i - activeLength')]_vars

\* the JS engine keeps an offset into the text instead of a symbol: after a
\* walk-down step with symbols remaining, the symbol at that offset is
\* text[i - activeLength']
C16_JsWalkDownKeepsPendingString ==
    [][walkDown =>
          /\ activeNode' = CurNext
          /\ activeLength' = activeLength - edgeLength(nodes[CurNext], leafEnd)
          /\ activeLength' > 0 => TextAt(activeEdge') = TextAt(i - activeLength')]_vars

-----------------------------------------------------------------------------
(* The tree after each phase, JS engine *)

\* text[a..b], positions counted from 0
Slice(a, b) == SubSeq(text, a + 1, b + 1)

\* the label of the edge into node n when leaves end at `boundary'
EdgeLabel(n, boundary) ==
    Slice(n.start, IF n.end # EndNull THEN n.end[1] ELSE boundary)

\* the strings spelled by descending from the node at address a, reached by
\* `path': at every node the descent takes the child stored at the index of
\* the next symbol and follows its edge label
RECURSIVE SpelledFrom(_, _, _, _, _)
SpelledFrom(live, clones, a, path, boundary) ==
    {path} \cup
    UNION {LET child == DerefIn(live, clones, DerefIn(live, clones, a).children[c])
               label == EdgeLabel(child, boundary)
           IN  IF label # <<>> /\ charToIndex(label[1]) = c
               THEN {path \o SubSeq(label, 1, j) : j \in 1..Len(label)}
                       \cup SpelledFrom(live, clones,
                                        DerefIn(live, clones, a).children[c],
                                        path \o label, boundary)
               ELSE {}
           : c \in {d \in 0..(ALPHABET_SIZE - 1) :
                        DerefIn(live, clones, a).children[d] # Null}}

\* C17: JS engine, the tree stored in the snapshot of phase k, read with the
\* leaf boundary k, is an implicit suffix tree of text[0..k]: the strings
\* spelled from its root are exactly the substrings of text[0..k] (and the
\* empty string); the live tree at the end of a phase is such a tree too.
C17_SnapshotIsImplicitSuffixTree ==
    /\ \A k \in 1..Len(steps) :
          SpelledFrom(nodes, cloneHeap, steps[k].snapshotRoot, <<>>,
                      steps[k].leafEndSnapshot)
              = Substrings(SubSeq(text, 1, k)) \cup {<<>>}
    /\ pc = "record" =>
          SpelledFrom(nodes, cloneHeap, RootId, <<>>, i)
              = Substrings(SubSeq(text, 1, i + 1)) \cup {<<>>}

C17_Witness ==
    /\ pc = "for"
    /\ i >= 4
    /\ i < Len(text)
    /\ remainingSuffixCount >= 2
    /\ \E n \in 1..Len(nodes) : nodes[n].suffixLink # Null

\* the pairs <<node, path label>> of the live tree below node n, reached by
\* `path', with leaves read up to `boundary'
RECURSIVE NodePaths(_, _, _)
NodePaths(n, path, boundary) ==
    {<<n, path>>} \cup
    UNION {NodePaths(nodes[n].children[c],
                     path \o EdgeLabel(nodes[nodes[n].children[c]], boundary),
                     boundary)
           : c \in {d \in 0..(ALPHABET_SIZE - 1) : nodes[n].children[d] # Null}}

\* the path label of live node n
PathLabel(n, boundary) ==
    LET ps == {pr \in NodePaths(RootId, <<>>, boundary) : pr[1] = n}
    IN  (CHOOSE pr \in ps : TRUE)[2]

\* the string the active point denotes: the path label of activeNode, then
\* the first activeLength symbols of the edge leaving it with first symbol
\* text[activeEdge]
ActivePointLabel ==
    LET head == PathLabel(activeNode, leafEnd)
        child == ChildAt(nodes[activeNode], charToIndex(TextAt(activeEdge)))
    IN  IF activeLength = 0 THEN head
        ELSE head \o SubSeq(EdgeLabel(nodes[child], leafEnd), 1, activeLength)

\* C18: JS engine, at the end of every phase i the active point spells the
\* longest pending suffix text[i-remainingSuffixCount+1 .. i]; so the depth
\* of activeNode plus activeLength is remainingSuffixCount, and after the
\* last phase of a valid text remainingSuffixCount = 0, activeLength = 0 and
\* activeNode is the root.
C18_ActivePointSpellsPendingSuffix ==
    pc = "record" =>
        /\ activeLength > 0 =>
              /\ ChildAt(nodes[activeNode], charToIndex(TextAt(activeEdge))) # Null
              /\ activeLength <= edgeLength(
                     nodes[ChildAt(nodes[activeNode],
                                   charToIndex(TextAt(activeEdge)))], leafEnd)
        /\ ActivePointLabel = Slice(i - remainingSuffixCount + 1, i)
        /\ Len(PathLabel(activeNode, leafEnd)) + activeLength = remainingSuffixCount
        /\ (ValidText(text) /\ i = Len(text) - 1) =>
              /\ remainingSuffixCount = 0
              /\ activeLength = 0
              /\ activeNode = RootId

C18_Witness ==
    /\ pc = "record"
    /\ activeNode # RootId
    /\ activeLength >= 1
    /\ remainingSuffixCount >= 2

\* a node is a leaf when it has no child
HasChild(n) == \E c \in 0..(ALPHABET_SIZE - 1) : nodes[n].children[c] # Null

\* C19: JS engine, after every completed phase and in the finished tree,
\* every internal node other than the root has at least two children.
C19_InternalNodesBranch ==
    pc \in {"record", "for", "done"} =>
        \A n \in 1..Len(nodes) :
            (n # RootId /\ (HasChild(n) \/ nodes[n].end # EndNull))
                => Cardinality({c \in 0..(ALPHABET_SIZE - 1) :
                                   nodes[n].children[c] # Null}) >= 2

C19_Witness ==
    /\ pc = "record"
    /\ Cardinality({n \in 1..Len(nodes) : n # RootId /\ HasChild(n)}) >= 2

\* C20: JS engine, after every completed phase, the child stored at index c
\* of a node has an edge label whose first symbol maps to c; so no two
\* children of a node start with the same symbol.
C20_ChildrenKeyedByFirstSymbol ==
    pc \in {"record", "for", "done"} =>
        \A n \in 1..Len(nodes) :
            /\ \A c \in 0..(ALPHABET_SIZE - 1) :
                  nodes[n].children[c] # Null =>
                      charToIndex(TextAt(nodes[nodes[n].children[c]].start)) = c
            /\ \A c, d \in {e \in 0..(ALPHABET_SIZE - 1) : nodes[n].children[e] # Null} :
                  c # d => TextAt(nodes[nodes[n].children[c]].start)
                              # TextAt(nodes[nodes[n].children[d]].start)

C20_Witness ==
    /\ pc = "record"
    /\ \E n \in 1..Len(nodes) :
          /\ n # RootId
          /\ Cardinality({c \in 0..(ALPHABET_SIZE - 1) :
                             nodes[n].children[c] # Null}) >= 3

-----------------------------------------------------------------------------
(* Leaf ends, suffix links and counters of the construction *)

\* the nodes created as leaves: their end is the shared boundary
LeafEnded(store) == {n \in 1..Len(store) : store[n].end = LeafEndPtr}

\* *node->end with the boundary at b
EndValue(node, b) == IF node.end = LeafEndPtr THEN b ELSE node.end[1]

\* C21: C++ engine, after every completed phase i the edge label of every
\* leaf ends at position i (edgeLength = i - start + 1): a node without
\* children, the root apart, holds the shared boundary and no end of its
\* own, and a node with children holds an end of its own; only the start of
\* a phase moves the boundary, by exactly one, with the nodes untouched; the
\* end of the edge of an internal node never changes.
C21_LeavesEndAtPhaseBoundary ==
    /\ [](pc \in {"for", "done"} =>
            /\ leafEnd = i - 1
            /\ \A n \in 1..Len(nodes) :
                  /\ (n # RootId /\ IsLeafNode(nodes, n)) <=> n \in LeafEnded(nodes)
                  /\ n \in LeafEnded(nodes) =>
                        /\ CppEdgeLength(nodes[n]) = (i - 1) - nodes[n].start + 1
                        /\ CppEdgeLength(nodes[n]) >= 1)
    /\ [][/\ leafEnd' # leafEnd =>
                /\ pc = "for" /\ pc' = "while"
                /\ leafEnd' = leafEnd + 1
                /\ nodes' = nodes
          /\ \A n \in 1..Len(nodes) :
                /\ n <= Len(nodes')
                /\ nodes'[n].end = nodes[n].end
                /\ ~IsLeafNode(nodes, n) =>
                       EndValue(nodes'[n], leafEnd') = EndValue(nodes[n], leafEnd)]_vars

\* the property of C21 for the JS engine: a leaf has end = null and is
\* measured with the leafEnd of the phase
C21_JsLeavesEndAtPhaseBoundary ==
    /\ [](pc \in {"record", "for", "done"} =>
            /\ leafEnd = IF pc = "record" THEN i ELSE i - 1
            /\ \A n \in 1..Len(nodes) :
                  /\ (n # RootId /\ IsLeafNode(nodes, n)) <=> nodes[n].end = EndNull
                  /\ nodes[n].end = EndNull =>
                        /\ edgeLength(nodes[n], leafEnd) = leafEnd - nodes[n].start + 1
                        /\ edgeLength(nodes[n], leafEnd) >= 1)
    /\ [][/\ leafEnd' # leafEnd =>
                /\ pc = "for" /\ pc' = "while"
                /\ leafEnd' = leafEnd + 1
                /\ nodes' = nodes
          /\ \A n \in 1..Len(nodes) :
                /\ n <= Len(nodes')
                /\ nodes'[n].end = nodes[n].end]_vars

\* the node the active-point update moves to from v: `v.suffixLink || this.root'
EffectiveLink(v) ==
    IF nodes[v].suffixLink # Null THEN nodes[v].suffixLink ELSE RootId

\* C22: JS engine, after every completed phase the effective suffix link of
\* every internal node v other than the root (v.suffixLink, the root when it
\* is null) is the node whose path label is the path label of v without its
\* first symbol.
C22_SuffixLinkDropsFirstSymbol ==
    pc \in {"record", "for", "done"} =>
        LET NP == NodePaths(RootId, <<>>, leafEnd) IN
        \A pr \in NP :
            (pr[1] # RootId /\ HasChild(pr[1])) =>
                /\ pr[2] # <<>>
                /\ <<EffectiveLink(pr[1]), Tail(pr[2])>> \in NP
                /\ EffectiveLink(pr[1]) = RootId \/ HasChild(EffectiveLink(pr[1]))

\* a phase has ended with a link between two internal nodes below the root
C22_Witness ==
    /\ pc = "record"
    /\ \E n \in 1..Len(nodes) :
          /\ n # RootId /\ HasChild(n)
          /\ nodes[n].suffixLink \notin {Null, RootId}
          /\ HasChild(nodes[n].suffixLink)

\* C23 as stated: JS engine, after every completed phase every leaf has
\* suffixLink = null and every internal node other than the root has a
\* non-null suffixLink.
C23_InternalNodesHaveSuffixLink ==
    pc \in {"record", "for", "done"} =>
        \A n \in 1..Len(nodes) :
            n # RootId =>
                IF HasChild(n) THEN nodes[n].suffixLink # Null
                ELSE nodes[n].suffixLink = Null

\* C23 amended: JS engine, after every completed phase every leaf has
\* suffixLink = null and every internal node whose path label has two or
\* more symbols has a non-null suffixLink; an internal node whose path label
\* is one symbol may keep suffixLink = null for good (rule 3 at the root does
\* not assign the pending link), and the root never gets a link.
C23_DeepInternalNodesHaveSuffixLink ==
    pc \in {"record", "for", "done"} =>
        /\ nodes[RootId].suffixLink = Null
        /\ \A pr \in NodePaths(RootId, <<>>, leafEnd) :
              pr[1] # RootId =>
                  IF HasChild(pr[1])
                  THEN nodes[pr[1]].suffixLink = Null => Len(pr[2]) = 1
                  ELSE nodes[pr[1]].suffixLink = Null

\* a finished tree with an internal node that kept suffixLink = null and an
\* internal node of depth two or more
C23_Witness ==
    /\ pc = "done"
    /\ \E n \in 1..Len(nodes) :
          n # RootId /\ HasChild(n) /\ nodes[n].suffixLink = Null
    /\ \E pr \in NodePaths(RootId, <<>>, leafEnd) :
          pr[1] # RootId /\ HasChild(pr[1]) /\ Len(pr[2]) >= 2

\* the nodes of a store created as leaves (end = null)
CreatedAsLeaf(store) == {n \in 1..Len(store) : store[n].end = EndNull}

\* C24: JS engine, after every completed phase i the counter satisfies
\* 0 <= remainingSuffixCount <= i + 1 and the tree has (i + 1) -
\* remainingSuffixCount leaves; a step decrements the counter, by one,
\* exactly when it creates one leaf, a rule-3 stop creates no node and keeps
\* the counter, and a node created as a leaf never gets a child.
C24_LeavesCountExplicitSuffixes ==
    /\ [](pc = "record" =>
            /\ 0 <= remainingSuffixCount
            /\ remainingSuffixCount <= i + 1
            /\ Cardinality({n \in 1..Len(nodes) : n # RootId /\ ~HasChild(n)})
                   = (i + 1) - remainingSuffixCount
            /\ {n \in 1..Len(nodes) : n # RootId /\ ~HasChild(n)}
                   = CreatedAsLeaf(nodes))
    /\ [][/\ remainingSuffixCount' < remainingSuffixCount
                <=> Cardinality(CreatedAsLeaf(nodes'))
                        = Cardinality(CreatedAsLeaf(nodes)) + 1
          /\ remainingSuffixCount' < remainingSuffixCount
                => remainingSuffixCount' = remainingSuffixCount - 1
          /\ Cardinality(CreatedAsLeaf(nodes')) >= Cardinality(CreatedAsLeaf(nodes))
          /\ Rule3 => /\ Len(nodes') = Len(nodes)
                      /\ remainingSuffixCount' = remainingSuffixCount
          /\ \A n \in CreatedAsLeaf(nodes) :
                /\ n \in CreatedAsLeaf(nodes')
                /\ IsLeafNode(nodes', n)]_vars

\* a phase stopped by rule 3 after it created leaves, suffixes still pending
C24_Witness ==
    /\ pc = "record"
    /\ remainingSuffixCount >= 2
    /\ Cardinality(CreatedAsLeaf(nodes)) >= 3
    /\ \E n \in CreatedAsLeaf(nodes) : nodes[n].start = i

\* C25: C++ engine, during phase i of the construction of a valid text every
\* position of text read by extendSuffixTree, walkDown and splitEdge lies in
\* 0..i, so no symbol of a later phase and nothing past the end of text is
\* read, and every children index computed lies in 0..ALPHABET_SIZE-1.
C25_CppReadsWithinPhase ==
    ValidText(text) =>
        /\ reads.phase < Len(text)
        /\ \A p \in reads.pos : 0 <= p /\ p <= reads.phase
        /\ \A c \in reads.idx : 0 <= c /\ c < ALPHABET_SIZE

-----------------------------------------------------------------------------
(* Size of the tree and termination of the construction *)

\* the number of edges of the live tree: its nodes other than the root
EdgeCount == Cardinality(NodePaths(RootId, <<>>, leafEnd)) - 1

\* C26 as stated: JS engine, after construction from a caller string of
\* length n (a text of length n + 1 with the final '$') the tree has at most
\* 2n - 1 edges.
C26_EdgesAtMostTwoNMinusOne ==
    (pc = "done" /\ ValidText(text)) => EdgeCount <= 2 * (Len(text) - 1) - 1

\* C26 amended: JS engine, after construction from a caller string of length
\* n the tree has n + 1 leaves and at most n - 1 internal nodes below the
\* root, so at most 2n edges when n >= 1, and exactly one edge (the leaf
\* "$") when n = 0; every node created is in the tree.
C26_EdgesAtMostTwoN ==
    (pc = "done" /\ ValidText(text)) =>
        LET n == Len(text) - 1 IN
        /\ EdgeCount = Len(nodes) - 1
        /\ Cardinality(CreatedAsLeaf(nodes)) = n + 1
        /\ IF n = 0 THEN EdgeCount = 1 ELSE EdgeCount <= 2 * n

\* a finished tree of a caller string of three or more symbols with 2n edges
C26_Witness ==
    /\ pc = "done"
    /\ ValidText(text)
    /\ Len(text) >= 4
    /\ EdgeCount = 2 * (Len(text) - 1)

\* the statements of the phases of the C++ constructor
NextCppPhases ==
    \/ CppBuildSuffixTree
    \/ CppExtendSuffixTree
    \/ CppNewLeaf
    \/ CppWalkDown
    \/ CppRule3
    \/ CppSplitEdge

\* The constructor is sequential code that runs to completion: no statement
\* waits.  Weak fairness of the phases, and weak fairness of the suffix-index
\* pass with its enabling condition (pc = "for" and i >= len(text)) written
\* out.
SpecCppBuildFair ==
    /\ SpecCppBuild
    /\ WF_vars(NextCppPhases)
    /\ \/ []<>(~(pc = "for" /\ i >= Len(text)))
       \/ []<><<CppSetSuffixIndex>>_vars

\* the statements of the phases of the JS constructor
NextPhases ==
    \/ buildSuffixTreeStepByStep
    \/ extendSuffixTree
    \/ NewLeaf
    \/ walkDown
    \/ Rule3
    \/ SplitEdge

\* the same for the JS constructor; recordStep is enabled exactly when
\* pc = "record"
SpecBuildFair ==
    /\ SpecBuild
    /\ WF_vars(NextPhases)
    /\ \/ []<>(pc # "record")
       \/ []<><<recordStep>>_vars
    /\ \/ []<>(~(pc = "for" /\ i >= Len(text)))
       \/ []<><<SetSuffixIndex>>_vars

\* what one iteration of the while loop of extendSuffixTree does to the
\* counters: a walk-down (`continue') strictly decreases activeLength and
\* keeps remainingSuffixCount, the rule-3 stop leaves the loop with the
\* counter unchanged, any other iteration decrements the counter by one
IterationProgress ==
    pc = "while" =>
        \/ /\ pc' = "while"
           /\ remainingSuffixCount' = remainingSuffixCount
           /\ activeLength' < activeLength
           /\ activeLength' >= 0
        \/ /\ pc' # "while"
           /\ remainingSuffixCount' = remainingSuffixCount
           /\ activeLength' = activeLength + 1
        \/ /\ remainingSuffixCount' = remainingSuffixCount - 1
           /\ remainingSuffixCount' >= 0
           /\ (pc' = "while") = (remainingSuffixCount' > 0)

C27_JsConstructionTerminates ==
    /\ <>(pc = "done")
    /\ [](pc = "done" => (i = Len(text) /\ Len(steps) = Len(text)))
    /\ [](i <= Len(text) /\ (pc \in {"while", "record"} => i < Len(text)))
    /\ [][/\ IterationProgress
          /\ i' # i => (i' = i + 1 /\ pc = "record" /\ pc' = "for")
          /\ pc' = "done" => (pc = "for" /\ i = Len(text))]_vars

-----------------------------------------------------------------------------
(* Relations between the queries, the page and the earlier revision *)

\* C28: JS engine, on the finished tree of a valid text search(p) is true
\* exactly when findAllMatches(p) is not empty, for every pattern p; for the
\* empty pattern search is true and findAllMatches returns every position
\* 0..len(text)-1.
C28_SearchIffMatchesNonEmpty ==
    /\ Returned("search") =>
          /\ ret = (findAllMatches(arg) # <<>>)
          /\ arg = <<>> => ret = TRUE
    /\ Returned("findAllMatches") =>
          /\ (ret # <<>>) = search(arg)
          /\ arg = <<>> => ret = [k \in 1..Len(text) |-> k - 1]

\* findAllMatches("") has returned on a text of five or more symbols
C28_Witness ==
    /\ Returned("findAllMatches")
    /\ arg = <<>>
    /\ Len(ret) >= 5
    /\ search(arg)

\* what the page's variable suffixTree refers to
suffixTreeObject == <<text, treeVars, steps>>

\* C29: page (main.js), after any sequence of Build, Prev and Next clicks:
\* whenever a tree has been built 0 <= currentStepIndex <= steps.length - 1;
\* Build resets currentStepIndex to 0; Prev at index 0 and Next at the last
\* index leave it unchanged; Prev, Next and the query buttons pressed before
\* any build, and Build with an empty trimmed input, change neither
\* suffixTree nor currentStepIndex.
C29_StepIndexStaysInRange ==
    /\ [](pc = "done" =>
             currentStepIndex >= 0 /\ currentStepIndex <= Len(steps) - 1)
    /\ [][/\ pc' = "new" => currentStepIndex' = 0
          /\ pc # "done" /\ pc' = "done" => currentStepIndex' = 0
          /\ pc = "done" /\ currentStepIndex = 0 /\ prevBtnClick
                => currentStepIndex' = 0
          /\ pc = "done" /\ currentStepIndex = Len(steps) - 1 /\ nextBtnClick
                => currentStepIndex' = currentStepIndex
          /\ pc = "page" /\ (\/ prevBtnClick
                             \/ nextBtnClick
                             \/ searchBtnClick
                             \/ allMatchesBtnClick
                             \/ lrsBtnClick
                             \/ susBtnClick)
                => UNCHANGED <<suffixTreeObject, currentStepIndex>>
          /\ pc = "page" => pc' = "new" /\ text' # <<>>
          /\ pc \in {"page", "done"} /\ op = "none" /\ <<>> \in UserInputs
                /\ buildTreeBtnHandler(<<>>)
                => UNCHANGED <<suffixTreeObject, currentStepIndex>>
         ]_vars

\* the last of four or more steps is shown: Next has been clicked up to the end
C29_Witness ==
    /\ pc = "done"
    /\ op = "none"
    /\ Len(steps) >= 4
    /\ currentStepIndex = Len(steps) - 1

\* C30: earlier JS revision of shortestUniqueSubstring (the DFS with the
\* partial-edge logic): for every valid text with a non-empty caller string
\* the returned string occurs at exactly one start position of text and
\* contains no '$'.
C30_DfsResultOccursOnce ==
    Returned("shortestUniqueSubstringDfs") /\ Len(text) >= 2 =>
        /\ Cardinality(Occurrences(text, ret)) = 1
        /\ ~includes(ret, Dollar)

====
